---------------------------- MODULE Spec2Model ----------------------------
(***************************************************************************)
(* Verification model of the aashvi-automation content lifecycle:          *)
(*   - the caption hashtag budget of the posting pipeline                  *)
(*     (post_on_instagram.py, scheduled_posts_on_instagram),               *)
(*   - the posting pipeline over the shared sheet (post_on_instagram.py,   *)
(*     automation.py),                                                     *)
(*   - the generation workflow, its run lock and the content repository    *)
(*     (content_workflow.py, config_repository.py, content_repository.py). *)
(*                                                                         *)
(* Text is a sequence of symbols: the characters " ", "\n", "#" and words  *)
(* (a word is one symbol and holds none of those three characters).        *)
(***************************************************************************)
EXTENDS Integers, Sequences, FiniteSets, TLC

VARIABLES
    capRow,      \* caption cell handed to the caption budget
    capOut,      \* the caption it assembled
    capPc,       \* "init" before, "done" after the assembly
    sheet,       \* the shared table: header row and record rows
    lastCall,    \* the arguments and result of the latest Poster call
    postedOnce,  \* indexes of the rows a successful Poster call carried
    postedTwice, \* indexes of the rows a second successful Poster call carried
    lastPost,    \* what the last posting run selected, did and notified
    clock,       \* number of Poster calls made
    lockFile,    \* content of the running-flag file ("" when the file is missing)
    run,         \* the generation run: its position, what it did and returned
    items,       \* the saved items of the batch the run is working on
    _cache,      \* the repository's cached item list (<<>> when cleared)
    _cache_timestamp, \* "None", or how old the cached list is: "fresh", "old"
    answers,     \* the counts returned since the last write, latest two
    lastOp,      \* the latest repository call: its name, whether it raised, its result
    client,      \* the AI text client: its adaptive delay and the call under way
    locStep,     \* a stored location, and what the posting scan made of it
    runs,        \* generation runs of several processes on one flag file
    scripts      \* where the two legacy scripts stand

capVars == <<capRow, capOut, capPc, locStep>>

postLog == <<lastCall, postedOnce, postedTwice, lastPost, clock>>

postVars == <<sheet, lastCall, postedOnce, postedTwice, lastPost, clock>>

genVars == <<lockFile, run, items>>

repoVars == <<_cache, _cache_timestamp, answers, lastOp>>

aiVars == <<client>>

raceVars == <<runs, scripts>>

(***************************************************************************)
(* Bounds                                                                  *)
(***************************************************************************)
MaxE == 32          \* most item hashtags in a caption cell

MaxRows == 3        \* most record rows in the sheet

MaxBatch == 2       \* most prompts the AI returns for one batch

MaxRuns == 2        \* most posting runs

MaxProcesses == 2   \* processes that start generation runs

MaxLocation == 4    \* most symbols of a stored location

MaxCompletions == 7 \* most calls of generate_completion in one behaviour

MaxCalls == 4       \* most calls of repository methods in one behaviour

(***************************************************************************)
(* Python string operations used by the code, on sequences of symbols      *)
(***************************************************************************)
IsSpace(c) == c \in {" ", "\n"}

Range(seq) == {seq[i] : i \in 1..Len(seq)}

Min(a, b) == IF a < b THEN a ELSE b

Max(a, b) == IF a > b THEN a ELSE b

\* s[lo:hi] for 0 <= lo, clipped like a Python slice
PySlice(s, lo, hi) ==
    LET h == Min(hi, Len(s))
    IN  IF lo >= h THEN <<>> ELSE SubSeq(s, lo + 1, h)

\* s.find(c): 0-based position of the first c, -1 when absent
PyFind(s, c) ==
    IF \E i \in 1..Len(s) : s[i] = c
    THEN (CHOOSE i \in 1..Len(s) : s[i] = c /\ \A j \in 1..(i - 1) : s[j] # c) - 1
    ELSE -1

\* s[:k] where k may be -1
PyPrefix(s, k) == IF k < 0 THEN PySlice(s, 0, Max(Len(s) + k, 0)) ELSE PySlice(s, 0, k)

\* s[k:] where k may be -1
PySuffix(s, k) == IF k < 0 THEN PySlice(s, Max(Len(s) + k, 0), Len(s)) ELSE PySlice(s, k, Len(s))

\* s.count(c)
PyCount(s, c) == Cardinality({i \in 1..Len(s) : s[i] = c})

\* s.replace(c, "")
PyRemove(s, c) == SelectSeq(s, LAMBDA x : x # c)

RECURSIVE PyLStrip(_)
PyLStrip(s) == IF s # <<>> /\ IsSpace(Head(s)) THEN PyLStrip(Tail(s)) ELSE s

RECURSIVE PyRStrip(_)
PyRStrip(s) == IF s # <<>> /\ IsSpace(s[Len(s)]) THEN PyRStrip(SubSeq(s, 1, Len(s) - 1)) ELSE s

\* s.strip()
PyStrip(s) == PyRStrip(PyLStrip(s))

\* s.split(" #"): the pieces between the non-overlapping occurrences of " #"
RECURSIVE PySplitFrom(_, _, _)
PySplitFrom(s, i, cur) ==
    IF i > Len(s) THEN <<cur>>
    ELSE IF i < Len(s) /\ s[i] = " " /\ s[i + 1] = "#"
         THEN <<cur>> \o PySplitFrom(s, i + 2, <<>>)
         ELSE PySplitFrom(s, i + 1, Append(cur, s[i]))

PySplit(s) == PySplitFrom(s, 1, <<>>)

\* " #".join(parts)
RECURSIVE PyJoin(_)
PyJoin(parts) ==
    IF parts = <<>> THEN <<>>
    ELSE IF Len(parts) = 1 THEN parts[1]
    ELSE parts[1] \o <<" ", "#">> \o PyJoin(Tail(parts))

Spaces(n) == [i \in 1..n |-> " "]

\* "#a #b #c" for the tag names <<a, b, c>>
RECURSIVE TagLine(_)
TagLine(names) ==
    IF names = <<>> THEN <<>>
    ELSE IF Len(names) = 1 THEN <<"#", names[1]>>
    ELSE <<"#", names[1], " ">> \o TagLine(Tail(names))

(***************************************************************************)
(* Caption budget: post_on_instagram.py lines 108-129                      *)
(***************************************************************************)
BoilerLine1 == <<"digitalmodel", "fashionista", "fashiongram", "styleblogger",
                 "fashionblogger", "fashionmodel", "modelling">>

BoilerLine2 == <<"modelswanted", "modelsearch", "modelphotography", "modelpose",
                 "modelstatus", "modelsofinstagram", "modelife">>

BoilerLine3 == <<"digitalinfluencer", "VirtualModel", "DigitalFashion">>

\* the triple-quoted literal, with its line breaks and indentation
RawCaptionLiteral ==
    <<" ">> \o TagLine(BoilerLine1) \o <<"\n">> \o Spaces(16)
            \o TagLine(BoilerLine2) \o <<" ", "\n">> \o Spaces(16)
            \o TagLine(BoilerLine3)

\* raw_caption = """...""".replace("\n", "").strip()
RawCaption == PyStrip(PyRemove(RawCaptionLiteral, "\n"))

max_hashtags == 30

Mentions == <<"@thevarunmayya", " ", "@acknowledge.ai", " ", "@eluna.ai">>

\* mutant: the extracted hashtags are cut to the budget (three symbols a hashtag)
ExtractedCaption_Capped(cap) ==
    PySlice(PyStrip(PySuffix(cap, PyFind(cap, "#"))), 0, 3 * max_hashtags)

\* extracted_caption = row["caption"][row["caption"].find("#"):].strip()
ExtractedCaption(cap) == PyStrip(PySuffix(cap, PyFind(cap, "#")))

\* caption_to_remove_from_raw
CaptionToRemoveFromRaw(cap) ==
    PyCount(ExtractedCaption(cap), "#") + PyCount(RawCaption, "#") - max_hashtags

\* raw_caption after lines 122-126
TrimmedRawCaption(cap) ==
    LET k == CaptionToRemoveFromRaw(cap)
        trimmed == IF k > 0
                   THEN <<"#">> \o PyJoin(PySlice(PySplit(RawCaption), 1, k))
                   ELSE RawCaption
    IN  IF trimmed = <<"#">> THEN <<>> ELSE trimmed

\* caption = row["caption"][:find("#")] + "\n\n\n" + extracted + raw + "\n\n\n" + mentions
BuildCaption(cap) ==
    PyPrefix(cap, PyFind(cap, "#")) \o <<"\n", "\n", "\n">>
        \o ExtractedCaption(cap) \o TrimmedRawCaption(cap)
        \o <<"\n", "\n", "\n">> \o Mentions

(***************************************************************************)
(* Caption cells the budget is applied to                                  *)
(***************************************************************************)
ItemTagNames(e) == [i \in 1..e |-> "t" \o ToString(i)]

FreeTexts == {<<>>, <<"Amazing", " ", "sunset", "!", " ">>, <<"hello">>}

\* free text followed by e item hashtags
MkCaption(ft, e) == ft \o TagLine(ItemTagNames(e))

CaptionInputs ==
    {MkCaption(ft, e) : ft \in FreeTexts, e \in 0..MaxE} \ {<<>>}

CapInit ==
    /\ capRow \in CaptionInputs
    /\ capOut = <<>>
    /\ capPc = "init"

\* the caption step of the scan for one caption-holder row
AssembleCaption ==
    /\ capPc = "init"
    /\ capOut' = BuildCaption(capRow)
    /\ capPc' = "done"
    /\ UNCHANGED <<capRow, locStep>>

(***************************************************************************)
(* The sheet: row 1 is the header, row r >= 2 holds record r - 1.          *)
(* Columns as in automation.py:470 (prompt and seed are not modelled).     *)
(***************************************************************************)
Header0 ==
    [index |-> "index", type |-> "type", location |-> <<"location">>,
     group_id |-> "group_id", image |-> <<"image">>, generated_on |-> "generated_on",
     caption |-> <<"caption">>, approved |-> "approved",
     posted_on_instagram |-> "posted_on_instagram",
     hyperlink_image |-> <<"hyperlink_image">>]

EmptySheet == [header |-> Header0, rows |-> <<>>]

\* one appended row: the 12 values of a row list, image columns empty
NewRow(idx, type, loc, gid, cap, approved) ==
    [index |-> idx, type |-> type, location |-> loc, group_id |-> gid,
     image |-> <<>>, generated_on |-> "", caption |-> cap, approved |-> approved,
     posted_on_instagram |-> "", hyperlink_image |-> <<>>]

\* worksheet.update_cell(row, col, value); row 1 is the header row
UpdateCell(sh, r, col, v) ==
    IF r = 1 THEN [sh EXCEPT !.header[col] = v]
    ELSE IF r >= 2 /\ r - 1 <= Len(sh.rows) THEN [sh EXCEPT !.rows[r - 1][col] = v]
    ELSE sh

\* worksheet.find(name).row: the header row, when the header cell still holds the name
HeaderIntact(sh, col) == sh.header[col] = Header0[col]

HeaderRow == 1

ImageFormula(url) == <<"=IMAGE(\"", url, "\", 4, 120, 120)">>

HyperlinkFormula(url) == <<"=HYPERLINK(\"", url, "\", \"Link\")">>

\* row["image"].replace('=IMAGE("', "").replace('", 4, 120, 120)', "")
ImageUrlOf(cell) == PyRemove(PyRemove(cell, "=IMAGE(\""), "\", 4, 120, 120)")

\* the public URL the upload returns for the image of the row with this index
UrlOfIndex(idx) == "url" \o ToString(idx)

\* datetime.now().strftime("%Y-%m-%d %H:%M")
Timestamp == "2023-05-01 09:00"

GroupName(n) == "g" \o ToString(n)

\* group ids handed out so far
GroupsUsed(sh) == {sh.rows[i].group_id : i \in 1..Len(sh.rows)} \ {""}

\* uuid4(): an id no row carries yet
FreshGroup(sh) == GroupName(Cardinality(GroupsUsed(sh)) + 1)

(***************************************************************************)
(* Legacy generation: automation.py                                        *)
(***************************************************************************)
CurrentLocation == "Paris"

Places == <<"Kyoto", "Louvre">>

\* get_last_index(): the number of records (the header row exists)
get_last_index(sh) == Len(sh.rows)

\* prompt[0] + "," + location; prompt[0] is the text after "Place Name:"
LocationCell(place) == <<" ", place, ",", CurrentLocation>>

\* v1_generate_prompts: n prompts parsed from the AI answer become n rows of a
\* new group; the first row's caption cell is empty, the others hold "-"
V1Rows(sh, n) ==
    LET offset == get_last_index(sh)
        gid == FreshGroup(sh)
    IN  [k \in 1..n |->
            NewRow(offset + k - 1, "posts", LocationCell(Places[((k - 1) % Len(Places)) + 1]),
                   gid, IF k = 1 THEN <<>> ELSE <<"-">>, "")]

v1_generate_prompts(n) ==
    /\ n >= 1
    /\ sheet' = [sheet EXCEPT !.rows = sheet.rows \o V1Rows(sheet, n)]
    /\ UNCHANGED <<lastCall, postedOnce, postedTwice, lastPost, clock>>

\* v1_generate_story_idea: values[:2] of the n story prompts become
\* auto-approved story rows without location and group
v1_generate_story_idea(n) ==
    /\ n >= 1
    /\ sheet' = [sheet EXCEPT !.rows = sheet.rows \o
                    [k \in 1..Min(n, 2) |->
                        NewRow(get_last_index(sheet) + k - 1, "story", <<>>, "", <<>>, "y")]]
    /\ UNCHANGED <<lastCall, postedOnce, postedTwice, lastPost, clock>>

\* the caption the AI text capability returns
GeneratedCaptions == {MkCaption(<<"Amazing", " ", "sunset", "!", " ">>, 2)}

\* generate_posts_and_caption, rows i.. of the snapshot `content`; out[i] is what
\* happens at row i: "ok", "imgErr" (an exception in the image step), "capErr"
\* (an exception in the caption step) or "exit" (non-200 answer: exit())
RECURSIVE LegacyGenRows(_, _, _, _, _)
LegacyGenRows(sh, content, i, out, cap) ==
    IF i > Len(content) THEN sh
    ELSE
        LET row == content[i]
            needImg == row.image = <<>>
            needCap == row.caption = <<>> /\ row.type = "posts"
            index == row.index + 1
            url == UrlOfIndex(row.index)
            sh1 == IF needImg
                   THEN UpdateCell(
                            UpdateCell(
                                UpdateCell(sh, HeaderRow + index, "image", ImageFormula(url)),
                                HeaderRow + index, "generated_on", "gen"),
                            HeaderRow + index, "hyperlink_image", HyperlinkFormula(url))
                   ELSE sh
            sh2 == IF needCap /\ out[i] # "capErr"
                   THEN UpdateCell(sh1, HeaderRow + row.index + 1, "caption", cap)
                   ELSE sh1
        IN  IF needImg /\ out[i] = "exit" THEN sh
            ELSE IF needImg /\ out[i] = "imgErr" THEN LegacyGenRows(sh, content, i + 1, out, cap)
            ELSE LegacyGenRows(sh2, content, i + 1, out, cap)

\* what can happen at a row of the snapshot
RowOutcomes(row) ==
    {"ok"} \cup (IF row.image = <<>> THEN {"imgErr", "exit"} ELSE {})
           \cup (IF row.caption = <<>> /\ row.type = "posts" THEN {"capErr"} ELSE {})

\* One run of generate_posts_and_caption over the whole sheet.  Of its rows at
\* most one raises (row `bad`, in the step `kind`) and the run may end at row
\* `stop` by exit(); 0 stands for no such row.  stops and bads are the rows
\* where the environment may fail.
generate_posts_and_caption(stops, bads) ==
    /\ \E i \in 1..Len(sheet.rows) : RowOutcomes(sheet.rows[i]) # {"ok"}
    /\ \E stop \in stops, bad \in bads,
          kind \in {"imgErr", "capErr"}, cap \in GeneratedCaptions :
          LET out == [i \in 1..Len(sheet.rows) |->
                        IF i = stop THEN "exit" ELSE IF i = bad THEN kind ELSE "ok"]
          IN  /\ \A i \in 1..Len(sheet.rows) : out[i] \in RowOutcomes(sheet.rows[i])
              /\ (stop # 0 /\ bad # 0) => bad < stop
              /\ bad = 0 => kind = "imgErr"
              /\ sheet' = LegacyGenRows(sheet, sheet.rows, 1, out, cap)
    /\ sheet' # sheet
    /\ UNCHANGED <<lastCall, postedOnce, postedTwice, lastPost, clock>>

\* the approver writes "y" into the approved cell of a row
Approve(i) ==
    /\ i \in 1..Len(sheet.rows)
    /\ sheet.rows[i].approved = ""
    /\ sheet' = [sheet EXCEPT !.rows[i].approved = "y"]
    /\ UNCHANGED <<lastCall, postedOnce, postedTwice, lastPost, clock>>

(***************************************************************************)
(* Posting pipeline: post_on_instagram.py                                  *)
(***************************************************************************)
MaxImagesPerCall == 6

\* s.replace(sub, "") for a two-symbol sub
RECURSIVE RemoveSub(_, _)
RemoveSub(s, sub) ==
    IF Len(s) < 2 THEN s
    ELSE IF s[1] = sub[1] /\ s[2] = sub[2] THEN RemoveSub(SubSeq(s, 3, Len(s)), sub)
    ELSE <<s[1]>> \o RemoveSub(Tail(s), sub)

NormalizeLocation_NoStrip(cell, main) == RemoveSub(cell, <<",", main>>)

\* row["location"].replace(f",{main_location}", "").strip()
NormalizeLocation(cell, main) == PyStrip(RemoveSub(cell, <<",", main>>))

\* the texts a location cell may hold: up to MaxLocation symbols, each a place
\* name, the current location, a comma or a space
LocationSymbols == {"Kyoto", CurrentLocation, ",", " "}

StoredLocations == UNION {[1..n -> LocationSymbols] : n \in 1..MaxLocation}

NoLocation == [stored |-> <<>>, passed |-> <<>>, pc |-> "done"]

\* lines 131-132 for the location cell of a selected row
LocationStep ==
    /\ locStep.pc = "init"
    /\ locStep' = [locStep EXCEPT !.passed = NormalizeLocation(locStep.stored, CurrentLocation),
                          !.pc = "done"]
    /\ UNCHANGED <<capRow, capOut, capPc>>

ScanStart == [group_id |-> "", image_urls |-> <<>>, indexes |-> <<>>,
              caption |-> <<>>, location |-> <<>>]

RowSelected_Unapproved(row, group_id) ==
    /\ row.posted_on_instagram = ""
    /\ row.type = "posts"
    /\ (row.group_id = group_id \/ group_id = "")

\* the test of lines 94-95
RowSelected(row, group_id) ==
    /\ row.approved = "y"
    /\ row.posted_on_instagram = ""
    /\ row.type = "posts"
    /\ (row.group_id = group_id \/ group_id = "")

\* the test of line 96
RowMissingValues(row) ==
    row.image = <<>> \/ row.caption = <<>> \/ row.location = <<>> \/ row.group_id = ""

\* the loop of lines 91-132 over rows i.. of `content`
RECURSIVE ScanRows(_, _, _)
ScanRows(content, i, acc) ==
    IF i > Len(content) THEN acc
    ELSE
        LET row == content[i]
        IN  IF RowSelected(row, acc.group_id) /\ ~RowMissingValues(row)
            THEN ScanRows(content, i + 1,
                    [group_id |-> row.group_id,
                     image_urls |-> acc.image_urls \o ImageUrlOf(row.image),
                     indexes |-> Append(acc.indexes, row.index),
                     caption |-> IF row.caption # <<"-">> THEN BuildCaption(row.caption)
                                 ELSE acc.caption,
                     location |-> NormalizeLocation(row.location, CurrentLocation)])
            ELSE ScanRows(content, i + 1, acc)

\* the loop of lines 137-139, stopped by an exception at update number failAt
RECURSIVE MarkPosted(_, _, _, _, _)
MarkPosted(sh, indexes, k, failAt, ts) ==
    IF k > Len(indexes) \/ k = failAt THEN sh
    ELSE MarkPosted(UpdateCell(sh, HeaderRow + indexes[k], "posted_on_instagram", ts),
                    indexes, k + 1, failAt, ts)

\* mutant: the slice is forgotten
FirstSix_All(seq) == seq

\* image_urls[:6] and indexes[:6] of lines 136-137
FirstSix(seq) == PySlice(seq, 0, MaxImagesPerCall)

\* mutant: the rows are marked although the Poster call raised
SheetAfterPoster_MarkAlways(sh, idxs, posterOk, failAt, ts) ==
    MarkPosted(sh, idxs, 1, failAt, ts)

\* lines 136-139: an exception of the Poster call skips the marking loop
SheetAfterPoster(sh, idxs, posterOk, failAt, ts) ==
    IF posterOk THEN MarkPosted(sh, idxs, 1, failAt, ts) ELSE sh

NoRun == [outcome |-> "none", indexes |-> <<>>, found |-> 0, note |-> <<"none", "">>,
          escaped |-> FALSE]

\* a row that makes line 94 read row['posted_on_instagram']
ReadsPostedCell(sh) == \E i \in 1..Len(sh.rows) : sh.rows[i].approved = "y"

\* what can happen to one posting run: everything answers ("ok"), get_all_records
\* raises, the Poster raises, find() raises for a missing header cell instead of
\* returning None, or update_cell number `at` raises
PostOutcomes ==
    {[kind |-> k, at |-> 0] : k \in {"ok", "read_fail", "poster_fail", "find_raises"}}
        \cup {[kind |-> "write_fail", at |-> k] : k \in 1..MaxImagesPerCall}

\* the exceptions of a run are Exceptions: the except clause of line 149 catches
\* them and sends the error message, nothing escapes the script
RunResult(outcome, idxs, found, kind, msg) ==
    [outcome |-> outcome, indexes |-> idxs, found |-> found, note |-> <<kind, msg>>,
     escaped |-> FALSE]

\* One posting run: scheduled_posts_on_instagram under the try/except of the
\* script (lines 145-154)
PostingRun ==
    LET acc == ScanRows(sheet.rows, 1, ScanStart)
        urls == FirstSix(acc.image_urls)
        idxs == FirstSix(acc.indexes)
        found == Len(acc.indexes)
        lost == ~HeaderIntact(sheet, "posted_on_instagram")
    IN  \E o \in PostOutcomes :
          /\ o.kind = "find_raises" => lost
          /\ o.kind = "poster_fail" => Len(urls) > 0
          /\ o.kind = "write_fail" => o.at <= Len(idxs)
          /\ IF o.kind = "read_fail"
             THEN /\ lastPost' = RunResult("read_failed", <<>>, 0, "error", "read_failed")
                  /\ UNCHANGED <<sheet, lastCall, postedOnce, postedTwice, clock>>
             ELSE IF lost /\ (o.kind = "find_raises" \/ ReadsPostedCell(sheet))
             THEN /\ lastPost' = RunResult("header_lost", <<>>, 0, "error", "header_lost")
                  /\ UNCHANGED <<sheet, lastCall, postedOnce, postedTwice, clock>>
             ELSE IF Len(acc.image_urls) = 0
             THEN /\ lastPost' = RunResult("nocontent", <<>>, 0, "nocontent", "")
                  /\ UNCHANGED <<sheet, lastCall, postedOnce, postedTwice, clock>>
             ELSE LET posterOk == o.kind # "poster_fail"
                  IN  /\ clock < MaxRuns
                      /\ clock' = clock + 1
                      /\ lastCall' = [images |-> urls, indexes |-> idxs, caption |-> acc.caption,
                                      location |-> acc.location, ok |-> posterOk]
                      /\ postedOnce' = IF posterOk THEN postedOnce \cup Range(idxs) ELSE postedOnce
                      /\ postedTwice' = IF posterOk THEN postedTwice \cup (postedOnce \cap Range(idxs))
                                        ELSE postedTwice
                      /\ sheet' = SheetAfterPoster(sheet, idxs, posterOk, o.at, Timestamp)
                      /\ lastPost' =
                           IF ~posterOk
                           THEN RunResult("poster_failed", idxs, found, "error", "poster_failed")
                           ELSE IF o.kind = "write_fail"
                           THEN RunResult("write_failed", idxs, found, "error", "write_failed")
                           ELSE RunResult("posted", idxs, found, "success", "")

NoCall == [images |-> <<>>, indexes |-> <<>>, caption |-> <<>>, location |-> <<>>, ok |-> FALSE]

PostInit ==
    /\ sheet = EmptySheet
    /\ lastCall = NoCall
    /\ postedOnce = {}
    /\ postedTwice = {}
    /\ lastPost = NoRun
    /\ clock = 0

(***************************************************************************)
(* Run lock: config_repository.py                                          *)
(***************************************************************************)
\* mutant: the flag file is never found set
is_process_running_Never(content) == FALSE

\* is_process_running: a missing file is "not running"; otherwise the content
\* is compared with "yep"
is_process_running(content) == IF content = "" THEN FALSE ELSE content = "yep"

\* set_process_running: the status written to the flag file
set_process_running(is_running) == IF is_running THEN "yep" ELSE "nope"

(***************************************************************************)
(* Content repository: content_repository.py, content.py                   *)
(***************************************************************************)
\* LocationData.full_name of the current location
FullLocation == <<"Paris", ",", " ", "France">>

\* location_str.split(', ', 1): the text before the first ", " and the text
\* after it (no country when there is no ", ")
ParseLocation(loc) ==
    LET cuts == {i \in 1..(Len(loc) - 1) : loc[i] = "," /\ loc[i + 1] = " "}
    IN  IF cuts = {} THEN [name |-> loc, country |-> <<>>]
        ELSE LET i == CHOOSE c \in cuts : \A d \in cuts : c <= d
             IN  [name |-> SubSeq(loc, 1, i - 1), country |-> SubSeq(loc, i + 2, Len(loc))]

\* LocationData.full_name: "name, country" unless there is no country or the
\* name already holds it
full_name(location) ==
    LET n == Len(location.country)
        inName == \E k \in 1..(Len(location.name) - n + 1) :
                      SubSeq(location.name, k, k + n - 1) = location.country
    IN  IF location.country # <<>> /\ ~inName
        THEN location.name \o <<",", " ">> \o location.country
        ELSE location.name

\* the text update_image_data writes into generated_on (strftime of
\* "%d/%m/%Y %H:%M:%S")
GeneratedOn == "gen"

\* datetime.strptime(cell, format) inside try/except: the time when the cell
\* holds a text of that format (`formatted` is the model's one such text), else
\* None ("")
Strptime(cell, formatted) == IF cell = formatted THEN cell ELSE ""

\* ContentItem.from_sheet_row(row, i): the item's index is the position i handed
\* in, the other fields are parsed from the row
from_sheet_row(row, i) ==
    [index |-> i, type |-> row.type, group_id |-> row.group_id,
     caption |-> row.caption, image |-> ImageUrlOf(row.image),
     approved |-> row.approved, posted |-> row.posted_on_instagram # "",
     location |-> ParseLocation(row.location),
     generated_at |-> Strptime(row.generated_on, GeneratedOn),
     posted_at |-> Strptime(row.posted_on_instagram, Timestamp)]

\* the values of ContentType and of ApprovalStatus
ContentTypes == {"posts", "story"}

ApprovalValues == {"", "y", "n"}

\* from_sheet_row returns an item instead of raising: the type and approval
\* cells are enum values, the group cell is a UUID (the empty string is none)
\* and a caption cell that is not empty is not blank either
Parses(row) ==
    /\ row.type \in ContentTypes
    /\ row.group_id # ""
    /\ row.approved \in ApprovalValues
    /\ row.caption # <<>> => PyStrip(row.caption) # <<>>

\* get_all_content: enumerate the records from 0, skip a record whose index cell
\* is empty or 0 and a record that from_sheet_row raises on, parse the others
RECURSIVE get_all_content(_, _)
get_all_content(records, i) ==
    IF i > Len(records) THEN <<>>
    ELSE IF records[i].index = 0 THEN get_all_content(records, i + 1)
    ELSE IF ~Parses(records[i]) THEN get_all_content(records, i + 1)
    ELSE <<from_sheet_row(records[i], i - 1)>> \o get_all_content(records, i + 1)

\* max(item.index for item in all_content)
MaxIndex(all_content) ==
    CHOOSE m \in {all_content[i].index : i \in 1..Len(all_content)} :
        \A i \in 1..Len(all_content) : all_content[i].index <= m

\* _get_last_index: 0 for an empty store and when the read fails
_get_last_index(sh, readOk) ==
    LET all_content == get_all_content(sh.rows, 1)
    IN  IF ~readOk \/ all_content = <<>> THEN 0 ELSE MaxIndex(all_content)

\* mutant: stories are saved like posts, waiting for approval
approval_status_Pending(type) == ""

\* the approval an item has when it is saved: the model's default (pending, "")
\* for posts, "y" for stories (content_workflow.py 161-163)
approval_status(type) == IF type = "story" THEN "y" ELSE ""

\* generate_content_batch: n items of one fresh group, index 0 until saved
NewItems(sh, type, n, approved) ==
    [i \in 1..n |-> [index |-> 0, type |-> type, group_id |-> FreshGroup(sh),
                     caption |-> <<>>, image |-> <<>>, approved |-> approved,
                     posted |-> FALSE, location |-> ParseLocation(FullLocation),
                     generated_at |-> "", posted_at |-> ""]]

\* the loop of create_content_batch: item.index = last_index + i + 1, i from 0
AssignIndices(content_items, last_index) ==
    [i \in 1..Len(content_items) |-> [content_items[i] EXCEPT !.index = last_index + (i - 1) + 1]]

\* ContentItem.to_sheet_row: the cells are written from the item's fields; the
\* two formula cells are rebuilt from the image URL, the two time cells from
\* the parsed times
to_sheet_row(item) ==
    [index |-> item.index, type |-> item.type, location |-> full_name(item.location),
     group_id |-> item.group_id,
     image |-> IF item.image # <<>> THEN ImageFormula(item.image[1]) ELSE <<>>,
     generated_on |-> item.generated_at, caption |-> PyStrip(item.caption),
     approved |-> item.approved, posted_on_instagram |-> item.posted_at,
     hyperlink_image |-> IF item.image # <<>> THEN HyperlinkFormula(item.image[1]) ELSE <<>>]

\* append_rows: the rows go below the last record
AppendRows(sh, rows) == [sh EXCEPT !.rows = sh.rows \o rows]

\* update_image_data: image, hyperlink and timestamp cells of sheet row
\* index + 1, written in this order; update number failAt raises (0: none does)
update_image_data(sh, item, url, failAt) ==
    LET r == item.index + 1
        s1 == IF failAt = 1 THEN sh ELSE UpdateCell(sh, r, "image", ImageFormula(url))
        s2 == IF failAt \in {1, 2} THEN s1
              ELSE UpdateCell(s1, r, "hyperlink_image", HyperlinkFormula(url))
        s3 == IF failAt \in {1, 2, 3} THEN s2 ELSE UpdateCell(s2, r, "generated_on", GeneratedOn)
    IN  s3

\* update_caption_data: the caption cell of sheet row index + 1
update_caption_data(sh, item, caption) == UpdateCell(sh, item.index + 1, "caption", caption)

max_non_posted_instagram_posts == 5

max_non_posted_stories == 5

\* the loop of get_non_posted_content_counts (lines 425-450): the group ids of
\* the not-posted posts go into a set, the not-posted stories are counted
CountNonPosted(all_content) ==
    LET open == {i \in 1..Len(all_content) : ~all_content[i].posted}
    IN  [posts |-> Cardinality({all_content[i].group_id :
                                   i \in {j \in open : all_content[j].type = "posts"}}),
         stories |-> Cardinality({j \in open : all_content[j].type = "story"})]

\* the answer of the except branch (lines 453-455)
ZeroCounts == [posts |-> 0, stories |-> 0]

\* get_non_posted_content_counts: groups of not-posted posts, not-posted
\* stories; zeros when the read fails
get_non_posted_content_counts(sh, readOk) ==
    IF ~readOk THEN ZeroCounts ELSE CountNonPosted(get_all_content(sh.rows, 1))

\* a repository call as the caller saw it, and how many calls were made
Op(name, ok, result) == [op |-> name, ok |-> ok, result |-> result, n |-> lastOp.n + 1]

NoOp == [op |-> "", ok |-> TRUE, result |-> <<>>, n |-> 0]

\* another call may be made
MayCall == lastOp.n < MaxCalls

\* ContentRepository.__init__: nothing cached
RepoInit ==
    /\ _cache = <<>>
    /\ _cache_timestamp = "None"
    /\ answers = <<>>
    /\ lastOp = NoOp

\* _is_cache_valid: a timestamp is set and less than 300 s old
_is_cache_valid(timestamp) == timestamp = "fresh"

\* get_all_content(use_cache) as the repository's state sees it: the cached
\* list when it may be used and is valid, else the records are fetched and
\* parsed and the cache is set; a failed fetch raises and leaves the cache
CachedContent(use_cache, readOk) ==
    IF use_cache /\ _is_cache_valid(_cache_timestamp)
    THEN [ok |-> TRUE, content |-> _cache, cache |-> _cache, timestamp |-> _cache_timestamp]
    ELSE IF readOk
    THEN LET content_items == get_all_content(sheet.rows, 1)
         IN  [ok |-> TRUE, content |-> content_items, cache |-> content_items,
              timestamp |-> "fresh"]
    ELSE [ok |-> FALSE, content |-> <<>>, cache |-> _cache, timestamp |-> _cache_timestamp]

\* mutant: the cache is left as it is
_invalidate_cache_Skipped(cache, timestamp) == [cache |-> cache, timestamp |-> timestamp]

\* _invalidate_cache: the cached list is dropped and the timestamp unset
_invalidate_cache(cache, timestamp) == [cache |-> <<>>, timestamp |-> "None"]

\* the cache after a write method that fetched `fetched` before it wrote: cleared
\* when the write went through, as the fetch left it when the write raised
AfterWrite(fetched, ok) ==
    LET cleared == _invalidate_cache(fetched.cache, fetched.timestamp)
    IN  /\ _cache' = IF ok THEN cleared.cache ELSE fetched.cache
        /\ _cache_timestamp' = IF ok THEN cleared.timestamp ELSE fetched.timestamp

\* the latest two answers
Remember(a) == IF Len(answers) < 2 THEN Append(answers, a) ELSE <<answers[2], a>>

\* one call of get_non_posted_content_counts on the repository
GetCounts ==
    /\ MayCall
    /\ \E readOk \in BOOLEAN :
          LET all_content == CachedContent(TRUE, readOk)
          IN  /\ answers' = Remember(IF all_content.ok THEN CountNonPosted(all_content.content)
                                     ELSE ZeroCounts)
              /\ _cache' = all_content.cache
              /\ _cache_timestamp' = all_content.timestamp
    /\ lastOp' = Op("get_counts", TRUE, <<>>)
    /\ UNCHANGED sheet

\* 300 s pass since the cache was set
CacheAges ==
    /\ _cache_timestamp = "fresh"
    /\ _cache_timestamp' = "old"
    /\ UNCHANGED <<sheet, _cache, answers, lastOp>>

\* one call of create_content_batch with n items of a fresh group (lines
\* 176-199): the last index is read past the cache, which sets the cache; the
\* rows are appended and the cache is cleared; a failed append raises before
CreateContentBatchOf(types, most) ==
    /\ MayCall
    /\ \E type \in types, n \in 1..MaxBatch, readOk \in BOOLEAN,
          appendOk \in BOOLEAN :
          LET all_content == CachedContent(FALSE, readOk)
              last_index == IF ~all_content.ok \/ all_content.content = <<>> THEN 0
                            ELSE MaxIndex(all_content.content)
              saved == AssignIndices(NewItems(sheet, type, n, approval_status(type)), last_index)
          IN  /\ Len(sheet.rows) + n <= most
              /\ sheet' = IF appendOk
                          THEN AppendRows(sheet, [i \in 1..n |-> to_sheet_row(saved[i])])
                          ELSE sheet
              /\ AfterWrite(all_content, appendOk)
              /\ lastOp' = Op("create_content_batch", appendOk, <<>>)
    /\ answers' = <<>>

CreateContentBatch == CreateContentBatchOf({"posts", "story"}, MaxRows)

\* the update_cell loop of mark_content_as_posted (lines 256-265); update number
\* failAt raises (0: none does)
RECURSIVE mark_content_as_posted(_, _, _, _)
mark_content_as_posted(sh, content_items, k, failAt) ==
    IF k > Len(content_items) \/ k = failAt THEN sh
    ELSE mark_content_as_posted(
             UpdateCell(sh, content_items[k].index + 1, "posted_on_instagram", Timestamp),
             content_items, k + 1, failAt)

\* one call of mark_content_as_posted for the not-posted posts of one group, as
\* get_all_content listed them; the cache is cleared after the loop (line 268),
\* not when an update raised
MarkContentAsPosted ==
    /\ MayCall
    /\ \E readOk \in BOOLEAN, failAt \in 0..MaxBatch :
          LET all_content == CachedContent(TRUE, readOk)
          IN  /\ all_content.ok
              /\ \E g \in {all_content.content[i].group_id : i \in 1..Len(all_content.content)} :
                    LET content_items ==
                            SelectSeq(all_content.content,
                                      LAMBDA c : c.group_id = g /\ c.type = "posts" /\ ~c.posted)
                    IN  /\ content_items # <<>>
                        /\ failAt <= Len(content_items)
                        /\ sheet' = mark_content_as_posted(sheet, content_items, 1, failAt)
                        /\ AfterWrite(all_content, failAt = 0)
                        /\ lastOp' = Op("mark_content_as_posted", failAt = 0, <<>>)
    /\ answers' = <<>>

\* one call of get_all_content(use_cache)
GetAll ==
    /\ MayCall
    /\ \E use_cache \in BOOLEAN, readOk \in BOOLEAN :
          LET all_content == CachedContent(use_cache, readOk)
          IN  /\ lastOp' = Op("get_all_content", all_content.ok, all_content.content)
              /\ _cache' = all_content.cache
              /\ _cache_timestamp' = all_content.timestamp
    /\ UNCHANGED <<sheet, answers>>

\* sheets_client.update_row(row_index, values): the cells of that sheet row are
\* replaced by the values; row 1 is the header row
UpdateRow(sh, r, row) ==
    IF r = 1 THEN [sh EXCEPT !.header = [row EXCEPT !.index = ToString(row.index)]]
    ELSE IF r >= 2 /\ r - 1 <= Len(sh.rows) THEN [sh EXCEPT !.rows[r - 1] = row]
    ELSE sh

\* update_content_item (lines 219-227): the item's row list goes to sheet row
\* index + 1
update_content_item(sh, content_item) ==
    UpdateRow(sh, content_item.index + 1, to_sheet_row(content_item))

\* the items a caller of the write methods holds: those get_all_content listed
HeldItems(all_content) == {all_content.content[i] : i \in 1..Len(all_content.content)}

\* one call of update_content_item for a listed item, saved as it is or after
\* the caller approved it
UpdateContentItem ==
    /\ MayCall
    /\ \E ok \in BOOLEAN :
          LET all_content == CachedContent(TRUE, TRUE)
          IN  /\ all_content.ok
              /\ \E item \in HeldItems(all_content), approve \in BOOLEAN :
                    LET content_item == IF approve THEN [item EXCEPT !.approved = "y"] ELSE item
                    IN  /\ sheet' = IF ok THEN update_content_item(sheet, content_item) ELSE sheet
                        /\ AfterWrite(all_content, ok)
                        /\ lastOp' = Op("update_content_item", ok, <<>>)
    /\ answers' = <<>>

\* one call of update_image_data for a listed item
UpdateImageData ==
    /\ MayCall
    /\ \E failAt \in 0..3 :
          LET all_content == CachedContent(TRUE, TRUE)
          IN  /\ all_content.ok
              /\ \E item \in HeldItems(all_content) :
                    /\ sheet' = update_image_data(sheet, item, UrlOfIndex(item.index), failAt)
                    /\ AfterWrite(all_content, failAt = 0)
                    /\ lastOp' = Op("update_image_data", failAt = 0, <<>>)
    /\ answers' = <<>>

\* one call of update_caption_data for a listed item
UpdateCaptionData ==
    /\ MayCall
    /\ \E ok \in BOOLEAN, caption \in GeneratedCaptions :
          LET all_content == CachedContent(TRUE, TRUE)
          IN  /\ all_content.ok
              /\ \E item \in HeldItems(all_content) :
                    /\ sheet' = IF ok THEN update_caption_data(sheet, item, caption) ELSE sheet
                    /\ AfterWrite(all_content, ok)
                    /\ lastOp' = Op("update_caption_data", ok, <<>>)
    /\ answers' = <<>>

(***************************************************************************)
(* Generation workflow: content_workflow.py                                *)
(***************************************************************************)
NoGenRun ==
    [n |-> 0, pc |-> "idle", held |-> FALSE, setFlag |-> FALSE, exc |-> "",
     ai |-> FALSE, wrote |-> FALSE, notes |-> <<>>, ret |-> "", stories |-> FALSE,
     k |-> 0, cap |-> "", img |-> "", posts |-> FALSE, did |-> {}, msg |-> <<>>,
     readFailed |-> FALSE,
     counts |-> [posts |-> -1, stories |-> -1]]

GenInit ==
    /\ lockFile = ""
    /\ run = NoGenRun
    /\ items = <<>>

\* the positions between set_process_running(True) and the finally clause
Protected ==
    {"notify_start", "prepare", "posts_batch", "posts_image", "posts_caption",
     "stories_batch", "stories_image", "notify_done"}

\* an exception inside the inner try: control goes to the finally clause
Raise(r, step, e) == [r EXCEPT !.pc = "release", !.exc = step, !.msg = e]

\* str() of an AashviError (base.py 30-32) whose message was built as
\* f"<title>: {e}": the error code, the title, then the text of e
ErrorText(code, title, e) == <<code, title>> \o e

\* the text of the exception the AI client or the sheet client raised
ClientFailure == <<"request failed">>

\* mutant: a run that finds the flag set reports a failure
CheckRunning_ReturnsFalse ==
    /\ run.pc \in {"idle", "returned", "killed"}
    /\ run.n < MaxRuns
    /\ LET fresh == [NoGenRun EXCEPT !.n = run.n + 1, !.held = (lockFile = "yep")]
       IN  run' = IF is_process_running(lockFile)
                  THEN [fresh EXCEPT !.pc = "returned", !.ret = "False"]
                  ELSE [fresh EXCEPT !.pc = "acquire"]
    /\ items' = <<>>
    /\ UNCHANGED <<lockFile, sheet>>

\* lines 66-68: the flag is read; a run that finds it set returns True
CheckRunning ==
    /\ run.pc \in {"idle", "returned", "killed"}
    /\ run.n < MaxRuns
    /\ LET fresh == [NoGenRun EXCEPT !.n = run.n + 1, !.held = (lockFile = "yep")]
       IN  run' = IF is_process_running(lockFile)
                  THEN [fresh EXCEPT !.pc = "returned", !.ret = "True"]
                  ELSE [fresh EXCEPT !.pc = "acquire"]
    /\ items' = <<>>
    /\ UNCHANGED <<lockFile, sheet>>

\* line 71
SetRunning ==
    /\ run.pc = "acquire"
    /\ lockFile' = set_process_running(TRUE)
    /\ run' = [run EXCEPT !.pc = "notify_start", !.setFlag = TRUE]
    /\ UNCHANGED <<items, sheet>>

\* lines 74-77: the "started" notification; the notification service catches a
\* failed delivery (notification_service.py 255-277), so nothing is raised
NotifyStarted ==
    /\ run.pc = "notify_start"
    /\ run' = [run EXCEPT !.pc = "prepare", !.notes = Append(@, <<"started">>)]
    /\ UNCHANGED <<lockFile, items, sheet>>

\* mutant: the story comparison is only made when no posts are wanted
Decide_Elif(counts, maxPosts, maxStories) ==
    [posts |-> counts.posts < maxPosts,
     stories |-> ~(counts.posts < maxPosts) /\ counts.stories < maxStories]

\* the two comparisons of lines 87 and 93
Decide(counts, maxPosts, maxStories) ==
    [posts |-> counts.posts < maxPosts, stories |-> counts.stories < maxStories]

\* lines 80-96: the location is read, the backlog is counted once, and the two
\* comparisons with the limits decide what is generated
PrepareWith(maxPosts, maxStories) ==
    /\ run.pc = "prepare"
    /\ \E locOk \in BOOLEAN, readOk \in BOOLEAN :
          LET counts == get_non_posted_content_counts(sheet, readOk)
              want == Decide(counts, maxPosts, maxStories)
          IN  run' = IF ~locOk THEN Raise(run, "location", <<"[FileNotFoundError]", "location.txt">>)
                     ELSE [run EXCEPT !.counts = counts, !.posts = want.posts,
                              !.readFailed = ~readOk,
                              !.stories = want.stories,
                              !.pc = IF want.posts THEN "posts_batch"
                                     ELSE IF want.stories THEN "stories_batch"
                                     ELSE "notify_done"]
    /\ UNCHANGED <<lockFile, items, sheet>>

\* the limits of the default settings
Prepare == PrepareWith(max_non_posted_instagram_posts, max_non_posted_stories)

\* where the run goes when the work on a batch of the given type is over
AfterBatch(r, type) ==
    IF type = "posts" /\ r.stories THEN [r EXCEPT !.pc = "stories_batch", !.k = 0]
    ELSE [r EXCEPT !.pc = "notify_done", !.k = 0]

\* the final_prompts[:2] of _parse_story_prompts
StoryPromptLimit == 2

\* the WorkflowError of lines 144 and 175
WorkflowErrorText(type, e) ==
    ErrorText("[WorkflowError]",
              IF type = "posts" THEN "Post generation failed:" ELSE "Story generation failed:", e)

\* generate_content_batch and create_content_batch of _generate_posts (lines
\* 122-132) and of _generate_stories (lines 152-166): the AI answer holds
\* `prompts` prompts of which at most `most` are kept; the prompt call, the
\* read of the last index or append_rows may fail
CreateBatch(type, pcBatch, pcImage, approved, step, most) ==
    /\ run.pc = pcBatch
    /\ \E prompts \in 0..MaxBatch, out \in {"ok", "ai_fail", "read_fail", "append_fail"} :
          LET n == Min(prompts, most) IN
          /\ Len(sheet.rows) + n <= MaxRows
          /\ n = 0 => out \in {"ok", "ai_fail"}
          /\ LET content_items == NewItems(sheet, type, n, approved)
                 saved == AssignIndices(content_items, _get_last_index(sheet, out # "read_fail"))
                 r1 == [run EXCEPT !.ai = TRUE, !.did = @ \cup {type},
                                   !.readFailed = @ \/ out = "read_fail"]
             IN  IF out = "ai_fail"
                 THEN /\ run' = Raise(r1, step, WorkflowErrorText(type,
                                     ErrorText("[ContentGenerationError]",
                                               "Failed to generate content:", ClientFailure)))
                      /\ UNCHANGED <<items, sheet>>
                 ELSE IF out = "append_fail"
                 THEN /\ run' = Raise(r1, step, WorkflowErrorText(type,
                                     ErrorText("[GoogleSheetsError]",
                                               "Failed to create content:", ClientFailure)))
                      /\ UNCHANGED <<items, sheet>>
                 ELSE IF n = 0
                 THEN /\ run' = AfterBatch(r1, type)
                      /\ items' = <<>>
                      /\ UNCHANGED sheet
                 ELSE /\ run' = [r1 EXCEPT !.pc = pcImage, !.k = 1, !.wrote = TRUE]
                      /\ items' = saved
                      /\ sheet' = AppendRows(sheet, [i \in 1..n |-> to_sheet_row(saved[i])])
    /\ UNCHANGED lockFile

\* _generate_images_for_content, one pass of the loop (lines 180-206): item k
\* gets its image; a failure of the image capability or of one of the three
\* cell updates is logged and the loop goes on
ImageItem(type, pcImage) ==
    /\ run.pc = pcImage
    /\ \E out \in {"ok", "gen_fail"}, failAt \in 0..3 :
          /\ out = "gen_fail" => failAt = 0
          /\ sheet' = IF out = "gen_fail" THEN sheet
                      ELSE update_image_data(sheet, items[run.k], UrlOfIndex(items[run.k].index),
                                             failAt)
          /\ LET r1 == [run EXCEPT !.ai = TRUE,
                                   !.wrote = @ \/ (out = "ok" /\ failAt # 1),
                                   !.img = IF out = "ok" /\ failAt = 0 THEN "ok" ELSE "failed"]
             IN  run' = IF run.k < Len(items) THEN [r1 EXCEPT !.k = run.k + 1]
                        ELSE IF type = "posts" THEN [r1 EXCEPT !.pc = "posts_caption", !.k = 0]
                        ELSE AfterBatch(r1, type)
    /\ UNCHANGED <<lockFile, items>>

\* mutant: a failed caption leaves _generate_posts as a failed post generation
AfterCaption_Raises(r, out) ==
    IF out = "ok" THEN AfterBatch(r, "posts")
    ELSE Raise(r, "post_generation", WorkflowErrorText("posts", ClientFailure))

\* mutant: the caption step is entered again when it is over
AfterCaption_Again(r, out) == [r EXCEPT !.pc = "posts_caption"]

\* lines 244-250: a caption failure is logged and not raised, so
\* _generate_posts ends normally whatever the caption step did
AfterCaption(r, out) == AfterBatch(r, "posts")

\* _generate_captions_for_content (lines 212-250): the batch is one group; its
\* first item gets the caption; a failure of the caption capability or of the
\* cell update is logged, nothing is raised
CaptionStep ==
    /\ run.pc = "posts_caption"
    /\ \E out \in {"ok", "gen_fail", "write_fail"}, caption \in GeneratedCaptions :
          LET first_item == items[1]
              r1 == [run EXCEPT !.ai = TRUE, !.wrote = @ \/ out = "ok",
                                !.cap = IF out = "ok" THEN "ok" ELSE "failed"]
          IN  /\ sheet' = IF out = "ok" THEN update_caption_data(sheet, first_item, caption)
                          ELSE sheet
              /\ run' = AfterCaption(r1, out)
    /\ UNCHANGED <<lockFile, items>>

\* lines 98-103: the "completed" notification, then return True
NotifyCompleted ==
    /\ run.pc = "notify_done"
    /\ run' = [run EXCEPT !.pc = "release", !.notes = Append(@, <<"completed">>)]
    /\ UNCHANGED <<lockFile, items, sheet>>

\* mutant: the flag is cleared only when the protected work raised nothing
ClearRunningStatus_OnSuccess(content, exc) ==
    IF exc = "" THEN set_process_running(FALSE) ELSE content

\* the finally clause (lines 105-107)
ClearRunningStatus(content, exc) == set_process_running(FALSE)

Release ==
    /\ run.pc = "release"
    /\ lockFile' = ClearRunningStatus(lockFile, run.exc)
    /\ run' = [run EXCEPT !.pc = "finish"]
    /\ UNCHANGED <<items, sheet>>

\* mutant: the error notification does not include the exception
ErrorNotificationText_Generic(e) == <<"Content generation failed">>

\* the message of lines 111-113
ErrorNotificationText(e) == <<"Content generation failed:">> \o e

\* lines 103 and 109-114: True after the protected work; after an exception the
\* error notification is handed to the notification service (which swallows a
\* failed delivery) and the run returns False
Finish ==
    /\ run.pc = "finish"
    /\ run' = IF run.exc = "" THEN [run EXCEPT !.pc = "returned", !.ret = "True"]
              ELSE [run EXCEPT !.pc = "returned", !.ret = "False",
                               !.notes = Append(@, ErrorNotificationText(run.msg))]
    /\ UNCHANGED <<lockFile, items, sheet>>

\* the process is ended from outside inside the protected section: nothing
\* more of the run is executed
Terminate ==
    /\ run.pc \in Protected
    /\ run' = [run EXCEPT !.pc = "killed"]
    /\ UNCHANGED <<lockFile, items, sheet>>

\* the operator resets a flag left behind by an ended process
ClearFlag ==
    /\ run.pc = "killed"
    /\ lockFile = "yep"
    /\ lockFile' = "nope"
    /\ UNCHANGED <<run, items, sheet>>

\* the processes that run the workflow on the same flag file
RunIds == 1..MaxProcesses

NoRaceRun == [pc |-> "idle", overlapped |-> {}, raceWith |-> {}, raced |-> FALSE,
              generated |-> FALSE]

\* neither legacy script has been started
NoScripts == [automation |-> "idle", posting |-> "idle"]

RaceInit ==
    /\ runs = [p \in RunIds |-> NoRaceRun]
    /\ scripts = NoScripts

\* between set_process_running(True) and the write of the finally clause
Inside(p) == runs[p].pc \in {"protected", "release"}

EnterOrSkip_Always(content) == "acquire"

\* lines 66-68: a set flag ends the run, otherwise the run goes on to line 71
EnterOrSkip(content) == IF is_process_running(content) THEN "returned" ELSE "acquire"

\* mutant: the return of line 68 lies inside the try, so that the finally
\* clause writes "nope" for a run that found the flag set
ReadFlag_Releases(p) ==
    /\ runs[p].pc \in {"idle", "returned"}
    /\ LET others == RunIds \ {p}
           waiting == {q \in others : runs[q].pc = "acquire"}
       IN  runs' = [runs EXCEPT ![p] =
                       [pc |-> EnterOrSkip(lockFile),
                        overlapped |-> {q \in others : Inside(q)},
                        raceWith |-> waiting,
                        raced |-> runs[p].raced \/ (waiting # {} /\ ~is_process_running(lockFile)),
                        generated |-> FALSE]]
    /\ lockFile' = IF is_process_running(lockFile) THEN ClearRunningStatus(lockFile, "")
                   ELSE lockFile
    /\ UNCHANGED <<run, items, sheet, scripts>>

\* line 66 in process p; noted with the run: the runs that are inside, the
\* runs that have read the flag and not yet written it, and whether this
\* process ever read the flag next to such a run
ReadFlag(p) ==
    /\ runs[p].pc \in {"idle", "returned"}
    /\ LET others == RunIds \ {p}
           waiting == {q \in others : runs[q].pc = "acquire"}
       IN  runs' = [runs EXCEPT ![p] =
                       [pc |-> EnterOrSkip(lockFile),
                        overlapped |-> {q \in others : Inside(q)},
                        raceWith |-> waiting,
                        raced |-> runs[p].raced \/ (waiting # {} /\ ~is_process_running(lockFile)),
                        generated |-> FALSE]]
    /\ UNCHANGED <<lockFile, run, items, sheet, scripts>>

\* line 71 in process p
WriteFlag(p) ==
    /\ runs[p].pc = "acquire"
    /\ lockFile' = set_process_running(TRUE)
    /\ runs' = [runs EXCEPT ![p].pc = "protected"]
    /\ UNCHANGED <<run, items, sheet, scripts>>

\* lines 73-103 in process p, as one step
Generate(p) ==
    /\ runs[p].pc = "protected"
    /\ runs' = [runs EXCEPT ![p].pc = "release", ![p].generated = TRUE]
    /\ UNCHANGED <<lockFile, run, items, sheet, scripts>>

\* the finally clause in process p
ReleaseFlag(p) ==
    /\ runs[p].pc = "release"
    /\ lockFile' = ClearRunningStatus(lockFile, "")
    /\ runs' = [runs EXCEPT ![p].pc = "returned"]
    /\ UNCHANGED <<run, items, sheet, scripts>>

(***************************************************************************)
(* The legacy scripts: automation.py 568-586, post_on_instagram.py 145-166 *)
(***************************************************************************)
\* automation.py 573-577: the flag file is read; "yep" ends the script
AutomationCheck ==
    /\ scripts.automation \in {"idle", "exited"}
    /\ lockFile # ""
    /\ scripts' = [scripts EXCEPT !.automation = IF lockFile = "yep" THEN "idle" ELSE "checked"]
    /\ UNCHANGED <<lockFile, run, items, runs, sheet, postLog>>

\* automation.py 578-581: the start message, then "yep" is written
AutomationSetFlag ==
    /\ scripts.automation = "checked"
    /\ lockFile' = "yep"
    /\ scripts' = [scripts EXCEPT !.automation = "running"]
    /\ UNCHANGED <<run, items, runs, sheet, postLog>>

\* automation.py 582: images and captions for the rows that lack them.  The
\* call is not inside a try: when the sheet read of line 401 raises, or when
\* the image request of row `stop` is answered with a non-200 code and line 426
\* calls exit(), the process ends inside the call ("exited") and lines 583-585
\* are not executed.
AutomationGenerate ==
    /\ scripts.automation = "running"
    /\ \E readOk \in BOOLEAN, stop \in 0..Len(sheet.rows), cap \in GeneratedCaptions :
          LET out == [i \in 1..Len(sheet.rows) |-> IF i = stop THEN "exit" ELSE "ok"]
          IN  /\ \A i \in 1..Len(sheet.rows) : out[i] \in RowOutcomes(sheet.rows[i])
              /\ ~readOk => stop = 0
              /\ sheet' = IF readOk
                          THEN LegacyGenRows(sheet, sheet.rows, 1, out, cap)
                          ELSE sheet
              /\ scripts' = [scripts EXCEPT !.automation =
                                IF readOk /\ stop = 0 THEN "generated" ELSE "exited"]
    /\ UNCHANGED <<lockFile, run, items, runs, postLog>>

\* automation.py 583-585: the stop message, then "nope" is written
AutomationClearFlag ==
    /\ scripts.automation = "generated"
    /\ lockFile' = "nope"
    /\ scripts' = [scripts EXCEPT !.automation = "idle"]
    /\ UNCHANGED <<run, items, runs, sheet, postLog>>

\* post_on_instagram.py 145-154: the script starts with the posting run; the
\* flag file is not opened
PostingScriptPosts ==
    /\ scripts.posting = "idle"
    /\ PostingRun
    /\ scripts' = [scripts EXCEPT !.posting = "posted"]
    /\ UNCHANGED <<lockFile, run, items, runs>>

\* post_on_instagram.py 156-158: the image service does not answer, the script
\* stops
PostingScriptStops ==
    /\ scripts.posting = "posted"
    /\ scripts' = [scripts EXCEPT !.posting = "idle"]
    /\ UNCHANGED <<lockFile, run, items, runs, sheet, postLog>>

\* post_on_instagram.py 160-166: the prompts of a new group are written
PostingScriptPrompts ==
    /\ scripts.posting = "posted"
    /\ \E n \in 1..MaxBatch : Len(sheet.rows) + n <= MaxRows /\ v1_generate_prompts(n)
    /\ scripts' = [scripts EXCEPT !.posting = "idle"]
    /\ UNCHANGED <<lockFile, run, items, runs>>

(***************************************************************************)
(* AI text client: infrastructure/apis/openai_client.py                    *)
(***************************************************************************)
\* Delays are counted in units of 10^-7 s, which keeps every product the
\* client computes within MaxCompletions calls a whole number
Second == 10000000

\* _make_api_call: max_retries and base_delay
max_retries == 3

base_delay == Second

\* generate_completion: the floor and the cap of _rate_limit_delay
MinDelay == Second \div 2

MaxDelay == 60 * Second

\* what one call of api_func does
ApiOutcomes == {"ok", "RateLimitError", "APIError", "Timeout", "AuthenticationError",
                "InvalidRequestError"}

\* 2 ** attempt
RECURSIVE Pow2(_)
Pow2(k) == IF k = 0 THEN 1 ELSE 2 * Pow2(k - 1)

BackoffDelay_Flat(attempt) == base_delay

\* base_delay * (2 ** attempt)
BackoffDelay(attempt) == base_delay * Pow2(attempt)

Relaxed_NoFloor(delay) == 9 * (delay \div 10)

\* max(0.5, self._rate_limit_delay * 0.9)
Relaxed(delay) == Max(MinDelay, 9 * (delay \div 10))

\* min(60.0, self._rate_limit_delay * 2)
BackedOff(delay) == Min(MaxDelay, delay * 2)

\* __init__: the delay starts at one second; no call is under way
ClientInit ==
    client = [_rate_limit_delay |-> Second, pc |-> "idle", attempt |-> 0, tried |-> 0,
              answer |-> "", slept |-> <<>>, raised |-> "", calls |-> 0]

\* generate_completion up to the first attempt: sleep for the adaptive delay
\* and enter _make_api_call
StartCompletion ==
    /\ client.pc = "idle"
    /\ client.calls < MaxCompletions
    /\ client' = [client EXCEPT !.pc = "attempt", !.attempt = 0, !.tried = 0,
                                !.answer = "", !.slept = <<>>, !.raised = "", !.calls = @ + 1]

\* generate_completion returns: the delay is relaxed
Returned(c) ==
    [c EXCEPT !.pc = "idle", !.raised = "ok", !._rate_limit_delay = Relaxed(@)]

\* the except clauses of generate_completion for an error e leaving
\* _make_api_call
Surfaced(c, e) ==
    IF e = "RateLimitError"
    THEN [c EXCEPT !.pc = "idle", !.raised = "OpenAIRateLimitError",
                   !._rate_limit_delay = BackedOff(@)]
    ELSE IF e = "AuthenticationError"
    THEN [c EXCEPT !.pc = "idle", !.raised = "OpenAIAuthenticationError"]
    ELSE [c EXCEPT !.pc = "idle", !.raised = "OpenAIError"]

Retryable_WithAuth(e) == e \in {"RateLimitError", "APIError", "Timeout", "AuthenticationError"}

\* the except clauses of _make_api_call: the errors it catches and retries
Retryable(e) == e \in {"RateLimitError", "APIError", "Timeout"}

\* one pass of the loop of _make_api_call: the attempt is made and answers
\* with outcome e
_make_api_call(c, e) ==
    LET made == [c EXCEPT !.tried = @ + 1, !.answer = e]
    IN  IF e = "ok" THEN Returned(made)
        ELSE IF ~Retryable(e) THEN Surfaced(made, e)
        ELSE IF c.attempt = max_retries - 1
        THEN Surfaced(made, IF e = "RateLimitError" THEN e ELSE "OpenAIError")
        ELSE [made EXCEPT !.slept = Append(@, BackoffDelay(c.attempt)), !.attempt = @ + 1]

Attempt ==
    /\ client.pc = "attempt"
    /\ \E e \in ApiOutcomes : client' = _make_api_call(client, e)

\* The text client used for one completion after another
ClientNext ==
    \/ StartCompletion /\ UNCHANGED <<capVars, postVars, genVars, repoVars, raceVars>>
    \/ Attempt /\ UNCHANGED <<capVars, postVars, genVars, repoVars, raceVars>>

vars ==
    <<capRow, capOut, capPc, sheet, lastCall, postedOnce, postedTwice, lastPost, clock,
      lockFile, run, items, _cache, _cache_timestamp, answers, lastOp, client, locStep, runs, scripts>>

Init ==
    /\ PostInit
    /\ GenInit
    /\ RepoInit
    /\ ClientInit
    /\ RaceInit
    /\ locStep = NoLocation
    /\ capRow = <<>>
    /\ capOut = <<>>
    /\ capPc = "done"

\* The legacy scripts and the approver on one sheet; generation runs here with
\* every call answering, the failures are those of the posting run
Next ==
    \/ \E n \in 1..MaxBatch :
          Len(sheet.rows) + n <= MaxRows /\ v1_generate_prompts(n) /\ UNCHANGED <<capVars, genVars, repoVars, aiVars, raceVars>>
    \/ \E n \in 1..MaxBatch :
          Len(sheet.rows) + Min(n, 2) <= MaxRows /\ v1_generate_story_idea(n) /\ UNCHANGED <<capVars, genVars, repoVars, aiVars, raceVars>>
    \/ generate_posts_and_caption({0}, {0}) /\ UNCHANGED <<capVars, genVars, repoVars, aiVars, raceVars>>
    \/ \E i \in 1..MaxRows : Approve(i) /\ UNCHANGED <<capVars, genVars, repoVars, aiVars, raceVars>>
    \/ PostingRun /\ UNCHANGED <<capVars, genVars, repoVars, aiVars, raceVars>>

Spec == Init /\ [][Next]_vars

\* One group with one row more than a Poster call may carry, generated, given
\* its images and caption, approved row by row in sheet order and posted
BigGroup == MaxImagesPerCall + 1

BigNext ==
    \/ sheet.rows = <<>> /\ v1_generate_prompts(BigGroup) /\ UNCHANGED <<capVars, genVars, repoVars, aiVars, raceVars>>
    \/ generate_posts_and_caption({0}, {0}) /\ UNCHANGED <<capVars, genVars, repoVars, aiVars, raceVars>>
    \/ \E i \in 1..BigGroup :
          /\ i <= Len(sheet.rows)
          /\ IF i = 1 THEN TRUE ELSE sheet.rows[i - 1].approved = "y"
          /\ Approve(i) /\ UNCHANGED <<capVars, genVars, repoVars, aiVars, raceVars>>
    \/ PostingRun /\ UNCHANGED <<capVars, genVars, repoVars, aiVars, raceVars>>

SpecBigGroup == Init /\ [][BigNext]_vars

CaptionInit ==
    /\ CapInit
    /\ locStep = NoLocation
    /\ PostInit
    /\ GenInit
    /\ RepoInit
    /\ ClientInit
    /\ RaceInit

\* The location step of the scan on the location cell of one selected row
LocationInit ==
    /\ locStep \in {[stored |-> s, passed |-> <<>>, pc |-> "init"] : s \in StoredLocations}
    /\ capRow = <<>>
    /\ capOut = <<>>
    /\ capPc = "done"
    /\ PostInit
    /\ GenInit
    /\ RepoInit
    /\ ClientInit
    /\ RaceInit

LocationNext == LocationStep /\ UNCHANGED <<postVars, genVars, repoVars, aiVars, raceVars>>

SpecLocation == LocationInit /\ [][LocationNext]_vars

CaptionNext == AssembleCaption /\ UNCHANGED <<postVars, genVars, repoVars, aiVars, raceVars>>

SpecCaption == CaptionInit /\ [][CaptionNext]_vars

\* The generation workflow alone on the sheet: runs of
\* run_full_content_generation one after the other, each possibly ended from
\* outside
GenNext ==
    \/ CheckRunning /\ UNCHANGED <<capVars, postLog, repoVars, aiVars, raceVars>>
    \/ SetRunning /\ UNCHANGED <<capVars, postLog, repoVars, aiVars, raceVars>>
    \/ NotifyStarted /\ UNCHANGED <<capVars, postLog, repoVars, aiVars, raceVars>>
    \/ Prepare /\ UNCHANGED <<capVars, postLog, repoVars, aiVars, raceVars>>
    \/ CreateBatch("posts", "posts_batch", "posts_image", approval_status("posts"),
                   "post_generation", MaxBatch)
          /\ UNCHANGED <<capVars, postLog, repoVars, aiVars, raceVars>>
    \/ ImageItem("posts", "posts_image") /\ UNCHANGED <<capVars, postLog, repoVars, aiVars, raceVars>>
    \/ CaptionStep /\ UNCHANGED <<capVars, postLog, repoVars, aiVars, raceVars>>
    \/ CreateBatch("story", "stories_batch", "stories_image", approval_status("story"),
                   "story_generation",
                   StoryPromptLimit)
          /\ UNCHANGED <<capVars, postLog, repoVars, aiVars, raceVars>>
    \/ ImageItem("story", "stories_image") /\ UNCHANGED <<capVars, postLog, repoVars, aiVars, raceVars>>
    \/ NotifyCompleted /\ UNCHANGED <<capVars, postLog, repoVars, aiVars, raceVars>>
    \/ Release /\ UNCHANGED <<capVars, postLog, repoVars, aiVars, raceVars>>
    \/ Finish /\ UNCHANGED <<capVars, postLog, repoVars, aiVars, raceVars>>
    \/ Terminate /\ UNCHANGED <<capVars, postLog, repoVars, aiVars, raceVars>>
    \/ ClearFlag /\ UNCHANGED <<capVars, postLog, repoVars, aiVars, raceVars>>

SpecGen == Init /\ [][GenNext]_vars

\* The repository alone on the sheet: its callers ask for the counts, save
\* batches and mark groups posted, and time passes
CountsNext ==
    \/ GetCounts /\ UNCHANGED <<capVars, postLog, genVars, aiVars, raceVars>>
    \/ CacheAges /\ UNCHANGED <<capVars, postLog, genVars, aiVars, raceVars>>
    \/ CreateContentBatch /\ UNCHANGED <<capVars, postLog, genVars, aiVars, raceVars>>
    \/ MarkContentAsPosted /\ UNCHANGED <<capVars, postLog, genVars, aiVars, raceVars>>

SpecCounts == Init /\ [][CountsNext]_vars

\* the rows the sheet may hold when every method of the repository is followed
StoreRows == 2

\* The repository with all its read and write methods on the sheet
StoreNext ==
    \/ GetAll /\ UNCHANGED <<capVars, postLog, genVars, aiVars, raceVars>>
    \/ CacheAges /\ UNCHANGED <<capVars, postLog, genVars, aiVars, raceVars>>
    \/ CreateContentBatchOf({"posts"}, StoreRows) /\ UNCHANGED <<capVars, postLog, genVars, aiVars, raceVars>>
    \/ MarkContentAsPosted /\ UNCHANGED <<capVars, postLog, genVars, aiVars, raceVars>>
    \/ UpdateContentItem /\ UNCHANGED <<capVars, postLog, genVars, aiVars, raceVars>>
    \/ UpdateImageData /\ UNCHANGED <<capVars, postLog, genVars, aiVars, raceVars>>
    \/ UpdateCaptionData /\ UNCHANGED <<capVars, postLog, genVars, aiVars, raceVars>>

SpecStore == Init /\ [][StoreNext]_vars

\* The repository reading a sheet that the legacy generators and
\* create_content_batch have written
ReadNext ==
    \/ \E n \in 1..MaxBatch :
          Len(sheet.rows) + n <= MaxRows /\ v1_generate_prompts(n) /\ UNCHANGED <<capVars, genVars, repoVars, aiVars, raceVars>>
    \/ \E n \in 1..MaxBatch :
          Len(sheet.rows) + Min(n, 2) <= MaxRows /\ v1_generate_story_idea(n) /\ UNCHANGED <<capVars, genVars, repoVars, aiVars, raceVars>>
    \/ CreateContentBatch /\ UNCHANGED <<capVars, postLog, genVars, aiVars, raceVars>>
    \/ GetAll /\ UNCHANGED <<capVars, postLog, genVars, aiVars, raceVars>>
    \/ CacheAges /\ UNCHANGED <<capVars, postLog, genVars, aiVars, raceVars>>

SpecRead == Init /\ [][ReadNext]_vars

SpecClient == Init /\ [][ClientNext]_vars

\* Generation runs started by several processes, each run reduced to its
\* steps on the flag file
RaceNext ==
    \/ \E p \in RunIds : ReadFlag(p) /\ UNCHANGED <<capVars, postLog, repoVars, aiVars>>
    \/ \E p \in RunIds : WriteFlag(p) /\ UNCHANGED <<capVars, postLog, repoVars, aiVars>>
    \/ \E p \in RunIds : Generate(p) /\ UNCHANGED <<capVars, postLog, repoVars, aiVars>>
    \/ \E p \in RunIds : ReleaseFlag(p) /\ UNCHANGED <<capVars, postLog, repoVars, aiVars>>

SpecRace == Init /\ [][RaceNext]_vars

\* The two legacy scripts and the approver on one sheet, with the flag file
\* in place
ScriptsInit ==
    /\ PostInit
    /\ lockFile = "nope"
    /\ run = NoGenRun
    /\ items = <<>>
    /\ RepoInit
    /\ ClientInit
    /\ RaceInit
    /\ locStep = NoLocation
    /\ capRow = <<>>
    /\ capOut = <<>>
    /\ capPc = "done"

ScriptsNext ==
    \/ AutomationCheck /\ UNCHANGED <<capVars, repoVars, aiVars>>
    \/ AutomationSetFlag /\ UNCHANGED <<capVars, repoVars, aiVars>>
    \/ AutomationGenerate /\ UNCHANGED <<capVars, repoVars, aiVars>>
    \/ AutomationClearFlag /\ UNCHANGED <<capVars, repoVars, aiVars>>
    \/ PostingScriptPosts /\ UNCHANGED <<capVars, repoVars, aiVars>>
    \/ PostingScriptStops /\ UNCHANGED <<capVars, repoVars, aiVars>>
    \/ PostingScriptPrompts /\ UNCHANGED <<capVars, repoVars, aiVars>>
    \/ \E i \in 1..MaxRows : Approve(i) /\ UNCHANGED <<capVars, genVars, repoVars, aiVars, raceVars>>

SpecScripts == ScriptsInit /\ [][ScriptsNext]_vars

\* the limits of a deployment that keeps a small backlog
LowPostLimit == 1

LowStoryLimit == 2

\* The generation workflow under the low limits: the backlog reaches both
\* limits within the rows the sheet may hold
BacklogNext ==
    \/ CheckRunning /\ UNCHANGED <<capVars, postLog, repoVars, aiVars, raceVars>>
    \/ SetRunning /\ UNCHANGED <<capVars, postLog, repoVars, aiVars, raceVars>>
    \/ NotifyStarted /\ UNCHANGED <<capVars, postLog, repoVars, aiVars, raceVars>>
    \/ PrepareWith(LowPostLimit, LowStoryLimit) /\ UNCHANGED <<capVars, postLog, repoVars, aiVars, raceVars>>
    \/ CreateBatch("posts", "posts_batch", "posts_image", approval_status("posts"),
                   "post_generation", MaxBatch)
          /\ UNCHANGED <<capVars, postLog, repoVars, aiVars, raceVars>>
    \/ ImageItem("posts", "posts_image") /\ UNCHANGED <<capVars, postLog, repoVars, aiVars, raceVars>>
    \/ CaptionStep /\ UNCHANGED <<capVars, postLog, repoVars, aiVars, raceVars>>
    \/ CreateBatch("story", "stories_batch", "stories_image", approval_status("story"),
                   "story_generation",
                   StoryPromptLimit)
          /\ UNCHANGED <<capVars, postLog, repoVars, aiVars, raceVars>>
    \/ ImageItem("story", "stories_image") /\ UNCHANGED <<capVars, postLog, repoVars, aiVars, raceVars>>
    \/ NotifyCompleted /\ UNCHANGED <<capVars, postLog, repoVars, aiVars, raceVars>>
    \/ Release /\ UNCHANGED <<capVars, postLog, repoVars, aiVars, raceVars>>
    \/ Finish /\ UNCHANGED <<capVars, postLog, repoVars, aiVars, raceVars>>

SpecBacklog == Init /\ [][BacklogNext]_vars

C3_NoDoublePosting == postedTwice = {}

\* a step that is a posting run calling the Poster and ending with the given outcome
PostingStep(outcome) == clock' = clock + 1 /\ lastPost'.outcome = outcome

\* C4: after a posting run whose Poster call succeeds, the rows marked posted
\* (with the run's timestamp) are exactly the rows passed to the Poster, and
\* nothing else in the sheet changes
C4_MarkedExactlyPosted ==
    [][PostingStep("posted") =>
        /\ sheet'.header = sheet.header
        /\ Len(sheet'.rows) = Len(sheet.rows)
        /\ \A i \in 1..Len(sheet.rows) :
              sheet'.rows[i] =
                 IF sheet.rows[i].index \in Range(lastCall'.indexes)
                 THEN [sheet.rows[i] EXCEPT !.posted_on_instagram = Timestamp]
                 ELSE sheet.rows[i]]_vars

Captioned(sh, g) ==
    {i \in 1..Len(sh.rows) : sh.rows[i].group_id = g /\ sh.rows[i].caption # <<>>}

\* the first sheet row of the group
FirstOfGroup(sh, g) ==
    CHOOSE i \in 1..Len(sh.rows) :
        /\ sh.rows[i].group_id = g
        /\ \A j \in 1..(i - 1) : sh.rows[j].group_id # g

\* C6: when the caption step of a post batch is over, the first row of the
\* batch's group is its only row with a caption if the caption was generated
\* and stored, no row of the group has one if that failed, and no group has
\* more than one captioned row
C6_OneCaptionPerGroup ==
    [][(run.pc = "posts_caption" /\ run'.pc \notin {"posts_caption", "killed"}) =>
          LET g == items[1].group_id
          IN  /\ run'.cap = "ok" => Captioned(sheet', g) = {FirstOfGroup(sheet', g)}
              /\ run'.cap = "failed" => Captioned(sheet', g) = {}
              /\ \A h \in GroupsUsed(sheet') : Cardinality(Captioned(sheet', h)) <= 1]_vars

\* the largest index stored in the sheet, 0 for an empty sheet
StoredMax(sh) ==
    IF sh.rows = <<>> THEN 0
    ELSE CHOOSE m \in {sh.rows[i].index : i \in 1..Len(sh.rows)} :
            \A i \in 1..Len(sh.rows) : sh.rows[i].index <= m

\* C7: a create_batch call gives its n rows the indices max+1 .. max+n, max
\* being the largest index stored before the call, and the stored indices stay
\* pairwise distinct
C7_IndicesDistinctAndConsecutive ==
    [][Len(sheet'.rows) > Len(sheet.rows) =>
          /\ \A i \in (Len(sheet.rows) + 1)..Len(sheet'.rows) :
                sheet'.rows[i].index = StoredMax(sheet) + (i - Len(sheet.rows))
          /\ \A i, j \in 1..Len(sheet'.rows) :
                i # j => sheet'.rows[i].index # sheet'.rows[j].index]_vars

\* number of hashtags extracted from the caption cell
ExtractedCount(cap) == PyCount(ExtractedCaption(cap), "#")

BoilerplateCount == PyCount(RawCaption, "#")

\* C8: the assembled caption holds exactly min(E + B, cap) hashtags, never more
\* than cap
C8_HashtagBudget ==
    capPc = "done" /\ capRow # <<>> =>
        /\ PyCount(capOut, "#") = Min(ExtractedCount(capRow) + BoilerplateCount, max_hashtags)
        /\ PyCount(capOut, "#") <= max_hashtags

\* the hashtag names of a text, in order
RECURSIVE TagNames(_)
TagNames(s) ==
    IF Len(s) < 2 THEN <<>>
    ELSE IF s[1] = "#" THEN <<s[2]>> \o TagNames(Tail(s))
    ELSE TagNames(Tail(s))

\* the boilerplate block of an assembled caption: what stands between the
\* extracted hashtags and the blank lines before the mentions
BoilerplateBlock(cap, out) ==
    LET before == Len(PyPrefix(cap, PyFind(cap, "#"))) + 3 + Len(ExtractedCaption(cap))
    IN  SubSeq(out, before + 1, Len(out) - 3 - Len(Mentions))

\* C9: the boilerplate block is the configured boilerplate without its first
\* max(0, E + B - cap) hashtags, the others in their order
C9_BoilerplateTrimmedFromFront ==
    capPc = "done" /\ capRow # <<>> =>
        LET drop == Max(0, ExtractedCount(capRow) + BoilerplateCount - max_hashtags)
            names == TagNames(RawCaption)
            block == BoilerplateBlock(capRow, capOut)
        IN  /\ TagNames(block) = PySlice(names, drop, Len(names))
            /\ drop = 0 => block = RawCaption
            /\ drop >= Len(names) => block = <<>>

\* C10: a Poster call never carries more than 6 images
C10_AtMostSixImages ==
    /\ Len(lastCall.images) <= 6
    /\ Len(lastCall.indexes) <= 6

\* C10 witness: a run found 7 qualifying rows of the group and called the Poster
\* with 6 images
C10_Witness ==
    /\ lastPost.found > 6
    /\ Len(lastCall.images) = 6

\* the step is a posting run that called the Poster and got its answer
PosterAnswered == clock' = clock + 1 /\ lastCall'.ok

\* the sheet rows whose index the Poster call of the step carried
PassedRows == {i \in 1..Len(sheet.rows) : sheet.rows[i].index \in Range(lastCall'.indexes)}

\* C11: the rows a posting run passes to the Poster have one group_id; when the
\* run has posted and marked, every passed row is marked and every row of
\* another group is as it was before the run
C11_OneGroupPerRun ==
    [][PosterAnswered =>
          LET G == {sheet.rows[i].group_id : i \in PassedRows}
          IN  /\ Cardinality(G) = 1
              /\ PostingStep("posted") =>
                    /\ \A i \in PassedRows : sheet'.rows[i].posted_on_instagram # ""
                    /\ \A i \in 1..Len(sheet.rows) :
                          sheet.rows[i].group_id \notin G => sheet'.rows[i] = sheet.rows[i]]_vars

\* what the scan asks of a row before it takes its image
Qualifies(row) ==
    /\ row.type = "posts"
    /\ row.approved = "y"
    /\ row.posted_on_instagram = ""
    /\ row.image # <<>>
    /\ row.caption # <<>>
    /\ row.location # <<>>
    /\ row.group_id # ""

\* C12: every row passed to the Poster qualified when the run scanned the
\* sheet, and a row that did not qualify is unchanged after the run
C12_OnlyQualifyingRows ==
    [][PosterAnswered =>
          /\ \A i \in PassedRows : Qualifies(sheet.rows[i])
          /\ \A i \in 1..Len(sheet.rows) :
                ~Qualifies(sheet.rows[i]) => sheet'.rows[i] = sheet.rows[i]]_vars

\* the run has counted the backlog
Prepared == run.counts.posts >= 0

\* C13 as stated: a run that counted the backlog has, when it returns, generated
\* posts exactly if the post count was below its limit and stories exactly if
\* the story count was below its limit
C13_EachCategoryIffDeficient ==
    (Prepared /\ run.pc = "returned") =>
        /\ ("posts" \in run.did) = (run.counts.posts < LowPostLimit)
        /\ ("story" \in run.did) = (run.counts.stories < LowStoryLimit)

\* C13, amended: the counts the run compares are those get_counts answered for
\* the sheet (zeros when the read failed); when the protected work is over,
\* post generation was started exactly if the post count was below its limit,
\* and story generation exactly if the story count was below its limit and
\* post generation had not failed before
C13_DeficientUnlessAborted ==
    [][/\ (run.pc = "prepare" /\ run'.pc # "prepare" /\ run'.exc = "") =>
             run'.counts \in {get_non_posted_content_counts(sheet, TRUE),
                              get_non_posted_content_counts(sheet, FALSE)}
       /\ (Prepared' /\ run'.pc \in {"release", "finish", "returned"}) =>
             /\ ("posts" \in run'.did) = (run'.counts.posts < LowPostLimit)
             /\ ("story" \in run'.did) =
                   (run'.counts.stories < LowStoryLimit /\ run'.exc # "post_generation")]_vars

\* C13 witness: a run that found the posts at their limit and the stories
\* below theirs generated stories only
C13_Witness ==
    /\ run.pc = "returned"
    /\ run.counts.posts >= LowPostLimit
    /\ run.counts.stories < LowStoryLimit
    /\ run.did = {"story"}

\* the step is pass k of the image loop of a batch
ImagePass ==
    /\ run.pc \in {"posts_image", "stories_image"}
    /\ run'.pc # "killed"

\* the sheet row that holds item k of the batch just appended
ItemRow(sh, k) == Len(sh.rows) - Len(items) + k

\* C14: a pass of the image loop whose image generation or store update failed
\* raises nothing, leaves the image cell of the item's row empty, and the loop
\* goes on with the next item of the batch
C14_ImageFailureSkipped ==
    [][ImagePass =>
          /\ run'.exc = ""
          /\ run.k < Len(items) => (run'.pc = run.pc /\ run'.k = run.k + 1)
          /\ run'.img = "failed" => sheet'.rows[ItemRow(sheet, run.k)].image = <<>>]_vars

\* C15: a failed caption generation or caption cell update raises nothing: the
\* sheet is as the image step left it, the run goes on to the story comparison
\* (story generation when stories are wanted, else the completion notice), no
\* failed post generation is ever recorded for the run, and the run returns
\* True unless a later step of its own fails
C15_CaptionFailureTolerated ==
    [][/\ (run.pc = "posts_caption" /\ run'.cap = "failed") =>
             /\ run'.exc = ""
             /\ sheet' = sheet
             /\ run'.pc = IF run.stories THEN "stories_batch" ELSE "notify_done"
       /\ run'.cap = "failed" =>
             /\ run'.exc # "post_generation"
             /\ (run'.pc = "returned" /\ run'.exc = "") => run'.ret = "True"]_vars

C15_Witness ==
    /\ run.pc = "returned"
    /\ run.cap = "failed"
    /\ run.ret = "True"
    /\ "story" \in run.did
    /\ \E i \in 1..Len(sheet.rows) : sheet.rows[i].type = "posts" /\ sheet.rows[i].image # <<>>

\* the error notifications among the messages the run handed to the
\* notification service
ErrorNotes == {i \in 1..Len(run.notes) : run.notes[i][1] \in {"Content generation failed:",
                                                               "Content generation failed"}}

C17_ReadFailureAborts ==
    [][/\ (run'.readFailed /\ ~run.readFailed) => (sheet' = sheet /\ run'.exc # "")
       /\ (run.readFailed /\ run'.n = run.n) => Len(sheet'.rows) = Len(sheet.rows)]_vars

\* the positions of the rows a step appended to the sheet
Appended == (Len(sheet.rows) + 1)..Len(sheet'.rows)

\* C18: every row the workflow appends is approved ("y") from the step that
\* writes it when it is a story and pending ("") when it is a post
C18_StoriesApprovedPostsPending ==
    [][\A i \in Appended :
          /\ sheet'.rows[i].type = "story" => sheet'.rows[i].approved = "y"
          /\ sheet'.rows[i].type = "posts" => sheet'.rows[i].approved = ""]_vars

C18_Witness ==
    /\ \E i \in 1..Len(sheet.rows) : sheet.rows[i].type = "story" /\ sheet.rows[i].approved = "y"
    /\ \E i \in 1..Len(sheet.rows) : sheet.rows[i].type = "posts" /\ sheet.rows[i].approved = ""
    /\ run.did = {"posts", "story"}

\* C19: of two answers of get_non_posted_content_counts with no write to the
\* sheet between the two calls, the second equals the first
C19_RepeatedCountsAgree == Len(answers) = 2 => answers[1] = answers[2]

\* the not-posted rows of a type
NotPosted(type) ==
    {i \in 1..Len(sheet.rows) : sheet.rows[i].type = type /\ sheet.rows[i].posted_on_instagram = ""}

\* the step is a call of get_non_posted_content_counts
CountsAnswered == answers' # answers /\ answers' # <<>>

\* C20: the answer of get_non_posted_content_counts holds the number of distinct
\* group ids among the not-posted post rows of the sheet and the number of
\* not-posted story rows
C20_CountsGroupsAndStories ==
    [][CountsAnswered =>
          answers'[Len(answers')] =
              [posts |-> Cardinality({sheet.rows[i].group_id : i \in NotPosted("posts")}),
               stories |-> Cardinality(NotPosted("story"))]]_vars

\* the latest repository call was a write method that returned normally
WriteDone ==
    /\ lastOp.ok
    /\ lastOp.op \in {"create_content_batch", "update_content_item", "update_image_data",
                      "update_caption_data", "mark_content_as_posted"}

\* C21: when a write method of the repository has returned normally the cache is
\* not valid, and get_all_content(use_cache=True) then fetches and parses the
\* sheet as the write left it
C21_WriteInvalidatesCache ==
    WriteDone =>
        /\ ~_is_cache_valid(_cache_timestamp)
        /\ CachedContent(TRUE, TRUE).content = get_all_content(sheet.rows, 1)

C21_Witness ==
    /\ WriteDone
    /\ lastOp.op = "update_caption_data"
    /\ \E i \in 1..Len(sheet.rows) : sheet.rows[i].caption # <<>> /\ sheet.rows[i].image # <<>>

\* the record at position p carries a posting time
RowPosted(sh, p) == sh.rows[p].posted_on_instagram # ""

\* C22: no repository operation removes a stored row or takes a row from
\* posted back to not posted: in every step the sheet keeps at least the rows
\* it had, and every row that carried a posting time still carries one.
C22_RowsKeptPostedStays ==
    [][/\ Len(sheet'.rows) >= Len(sheet.rows)
       /\ \A p \in 1..Len(sheet.rows) : RowPosted(sheet, p) => RowPosted(sheet', p)]_vars

\* one item for every record that from_sheet_row accepts, in sheet order
RECURSIVE ParsedItems(_, _)
ParsedItems(records, i) ==
    IF i > Len(records) THEN <<>>
    ELSE IF ~Parses(records[i]) THEN ParsedItems(records, i + 1)
    ELSE <<from_sheet_row(records[i], i - 1)>> \o ParsedItems(records, i + 1)

\* a call of get_all_content that read the sheet and returned
FreshRead ==
    /\ lastOp'.n = lastOp.n + 1
    /\ lastOp'.op = "get_all_content"
    /\ lastOp'.ok
    /\ ~_is_cache_valid(_cache_timestamp)

\* C23: get_all_content returns one item for every stored row that parses, in
\* store order: whenever it reads the sheet and returns, its result lists
\* every record from_sheet_row accepts, the record with the lowest index
\* included, and leaves out only the records that do not parse.
C23_EveryParsedRowReturned ==
    [][FreshRead => lastOp'.result = ParsedItems(sheet.rows, 1)]_vars

\* C24: a call through _make_api_call makes at most 3 attempts; the wait after
\* the failed attempt k < 3 is base_delay * 2^(k-1) and an attempt follows it;
\* a successful attempt is the call's last; a rate-limit error reaches the
\* caller only after the third attempt failed.
C24_AtMostThreeAttempts ==
    /\ client.tried <= 3
    /\ \A k \in 1..Len(client.slept) : k < 3 /\ client.slept[k] = Second * Pow2(k - 1)
    /\ client.pc = "attempt" => client.tried = Len(client.slept) /\ client.tried < 3
    /\ client.raised = "ok" => client.answer = "ok" /\ client.tried = Len(client.slept) + 1
    /\ client.raised = "OpenAIRateLimitError" => client.tried = 3 /\ Len(client.slept) = 2

C24_Witness ==
    /\ client.raised = "ok"
    /\ client.tried = 3
    /\ client.slept = <<Second, 2 * Second>>

\* the step in which an attempt of the call under way gets the answer e
Answered(e) ==
    /\ client.pc = "attempt"
    /\ client'.tried = client.tried + 1
    /\ client'.answer = e

\* C25 as stated: a call that ends with an authentication error made exactly
\* one attempt and never backed off.
C25_AuthAfterOneAttempt ==
    client.raised = "OpenAIAuthenticationError" => client.tried = 1 /\ client.slept = <<>>

\* C25: an authentication error ends the call at the attempt that met it: no
\* wait and no attempt follows, the caller gets an authentication error and
\* the adaptive delay is left as it was; met at the first attempt, it is the
\* call's only attempt.
C25_AuthNeverRetried ==
    [][Answered("AuthenticationError") =>
          /\ client'.pc = "idle"
          /\ client'.raised = "OpenAIAuthenticationError"
          /\ client'.slept = client.slept
          /\ client'._rate_limit_delay = client._rate_limit_delay
          /\ client.tried = 0 => client'.tried = 1 /\ client'.slept = <<>>]_vars

C25_Witness ==
    /\ client.raised = "OpenAIAuthenticationError"
    /\ client.tried = 1
    /\ client.slept = <<>>
    /\ client._rate_limit_delay = 2 * Second

\* C26: a call that fails with a rate-limit error doubles the adaptive delay
\* up to the maximum, a call that succeeds multiplies it by 0.9 down to the
\* minimum, no other step changes it, and the delay stays between the minimum
\* and the maximum.
C26_AdaptiveDelay ==
    [][/\ client'.raised = "OpenAIRateLimitError" /\ client.pc = "attempt" =>
             client'._rate_limit_delay = Min(60 * Second, 2 * client._rate_limit_delay)
       /\ client'.raised = "ok" /\ client.pc = "attempt" =>
             client'._rate_limit_delay = Max(Second \div 2, 9 * (client._rate_limit_delay \div 10))
       /\ client'.raised \notin {"OpenAIRateLimitError", "ok"} \/ client.pc # "attempt" =>
             client'._rate_limit_delay = client._rate_limit_delay
       /\ client'._rate_limit_delay >= Second \div 2
       /\ client'._rate_limit_delay <= 60 * Second]_vars

\* the delay was capped by a rate-limit failure, or floored by a success
C26_Witness ==
    \/ client.raised = "OpenAIRateLimitError" /\ client._rate_limit_delay = 60 * Second
    \/ client.raised = "ok" /\ client._rate_limit_delay = Second \div 2

\* the text s ends with the text t
EndsWith(s, t) == Len(s) >= Len(t) /\ SubSeq(s, Len(s) - Len(t) + 1, Len(s)) = t

\* the text t occurs in the text s
Occurs(t, s) == \E k \in 1..(Len(s) - Len(t) + 1) : SubSeq(s, k, k + Len(t) - 1) = t

\* C27 as stated: the location passed on is the stored location without a
\* trailing ", <currentLocation>", and the stored location itself when it has
\* no such suffix.
C27_TrailingSuffixRemoved ==
    locStep.pc = "done" /\ locStep.stored # <<>> =>
        locStep.passed = IF EndsWith(locStep.stored, <<",", " ", CurrentLocation>>)
                     THEN SubSeq(locStep.stored, 1, Len(locStep.stored) - 3)
                     ELSE locStep.stored

\* C27: the location passed on is the stored location without the
\* occurrences of ",<currentLocation>" (comma, then the location, no space
\* between) and without surrounding whitespace: "Kyoto,Paris" is passed as
\* "Kyoto", and a stored location in which ",Paris" does not occur, such as
\* "Kyoto, Paris", is passed on as it stands but for surrounding whitespace.
C27_CommaLocationRemoved ==
    locStep.pc = "done" /\ locStep.stored # <<>> =>
        /\ locStep.passed = PyStrip(RemoveSub(locStep.stored, <<",", CurrentLocation>>))
        /\ locStep.stored = <<"Kyoto", ",", CurrentLocation>> => locStep.passed = <<"Kyoto">>
        /\ ~Occurs(<<",", CurrentLocation>>, locStep.stored) => locStep.passed = PyStrip(locStep.stored)

C27_Witness ==
    /\ locStep.pc = "done"
    /\ locStep.stored = <<"Kyoto", ",", " ", CurrentLocation>>
    /\ locStep.passed = locStep.stored

\* a row the scan may post: an approved post row, not yet posted, with image,
\* caption, location and group
Qualifying(row) ==
    /\ row.type = "posts"
    /\ row.approved = "y"
    /\ row.posted_on_instagram = ""
    /\ row.image # <<>> /\ row.caption # <<>> /\ row.location # <<>> /\ row.group_id # ""

\* a posting run that got through its scan took this step
ScannedRun ==
    /\ lastPost' # lastPost
    /\ lastPost'.outcome \notin {"read_failed", "header_lost"}

\* C28: a posting run whose scan finds no qualifying row sends the "no posts
\* to post" notification, makes no Poster call and leaves every cell of the
\* sheet as it was.
C28_NoContentNoPoster ==
    [][ScannedRun /\ (\A i \in 1..Len(sheet.rows) : ~Qualifying(sheet.rows[i])) =>
          /\ lastPost'.note[1] = "nocontent"
          /\ clock' = clock
          /\ lastCall' = lastCall
          /\ sheet' = sheet]_vars

\* a run found nothing to post on a sheet that holds rows, none of them ready
C28_Witness ==
    /\ lastPost.outcome = "nocontent"
    /\ lastCall = NoCall
    /\ \E i \in 1..Len(sheet.rows) : sheet.rows[i].image # <<>> /\ sheet.rows[i].approved = ""

C30_PostingWaitsForFlag ==
    [][scripts'.posting # scripts.posting /\ lockFile = "yep" => sheet' = sheet]_vars

\* the flag is set and no run is under way: it was left by a run that was ended
StaleFlag == lockFile = "yep" /\ run.pc \in {"killed", "returned"}

C32_LegacyFlagReleasedOnExit ==
    scripts.automation \in {"idle", "exited"} => lockFile = "nope"

\* Sheets as the posting script may find them: post rows that have their image,
\* caption and location, numbered as the generator numbers them, of two groups
\* in any order (rows inserted by overlapping generator processes at the
\* position each computed before the other inserted, or moved by the operator)
ScanGroups == {GroupName(1), GroupName(2)}

ReadyRow(idx, gid, cap, approved) ==
    [NewRow(idx, "posts", LocationCell(Places[1]), gid, cap, approved)
        EXCEPT !.image = ImageFormula(UrlOfIndex(idx)),
               !.generated_on = "gen",
               !.hyperlink_image = HyperlinkFormula(UrlOfIndex(idx))]

ScanSheets ==
    UNION {{[i \in 1..n |-> ReadyRow(i - 1, g[i], c[i], a[i])] :
                g \in [1..n -> ScanGroups],
                c \in [1..n -> GeneratedCaptions \cup {<<"-">>}],
                a \in [1..n -> {"", "y"}]} : n \in 1..MaxRows}

ScanInit ==
    /\ \E rows \in ScanSheets : sheet = [EmptySheet EXCEPT !.rows = rows]
    /\ lastCall = NoCall
    /\ postedOnce = {}
    /\ postedTwice = {}
    /\ lastPost = NoRun
    /\ clock = 0
    /\ GenInit
    /\ RepoInit
    /\ ClientInit
    /\ RaceInit
    /\ locStep = NoLocation
    /\ capRow = <<>>
    /\ capOut = <<>>
    /\ capPc = "done"

ScanNext ==
    \/ \E i \in 1..MaxRows : Approve(i) /\ UNCHANGED <<capVars, genVars, repoVars, aiVars, raceVars>>
    \/ PostingRun /\ UNCHANGED <<capVars, genVars, repoVars, aiVars, raceVars>>

SpecScan == ScanInit /\ [][ScanNext]_vars

\* the positions of the qualifying rows, and the group of the first of them
QualifyingAt(rows) == {i \in 1..Len(rows) : Qualifying(rows[i])}

ActiveGroup(rows) ==
    IF QualifyingAt(rows) = {} THEN ""
    ELSE rows[CHOOSE i \in QualifyingAt(rows) : \A j \in QualifyingAt(rows) : i <= j].group_id

\* the qualifying rows of the active group that come after a qualifying row of
\* another group
AfterMismatch(rows) ==
    {j \in QualifyingAt(rows) :
        /\ rows[j].group_id = ActiveGroup(rows)
        /\ \E m \in QualifyingAt(rows) : m < j /\ rows[m].group_id # ActiveGroup(rows)}

\* C33: a posting run that calls the Poster leaves out every qualifying row of
\* the active group that comes after the first qualifying row of another
\* group: its index is not in the call and its posted cell stays empty.
C33_ScanStopsAtOtherGroup ==
    [][clock' # clock =>
          \A j \in AfterMismatch(sheet.rows) :
              /\ sheet.rows[j].index \notin Range(lastCall'.indexes)
              /\ sheet'.rows[j].posted_on_instagram = ""]_vars

\* C34: every Poster call carries a caption: the caption assembled from the
\* caption holder of the group it posts, never the empty text.
C34_PosterCaptionNeverEmpty ==
    [][clock' # clock => lastCall'.caption # <<>>]_vars

\* the names that follow a hashtag marker in a text, in order
HashtagNames(s) ==
    LET at == SelectSeq([i \in 1..Len(s) |-> i], LAMBDA i : i < Len(s) /\ s[i] = "#")
    IN  [k \in 1..Len(at) |-> s[at[k] + 1]]

\* C35: the hashtags of the caption cell are the first hashtags of the
\* assembled caption, all of them and in their order, whatever their number;
\* the hashtags after them are boilerplate hashtags.
C35_ItemHashtagsKept ==
    capPc = "done" =>
        LET item == HashtagNames(capRow)
            all == HashtagNames(capOut)
        IN  /\ Len(all) >= Len(item)
            /\ SubSeq(all, 1, Len(item)) = item
            /\ \A k \in (Len(item) + 1)..Len(all) : all[k] \in Range(HashtagNames(RawCaption))

\* a caption cell with more hashtags than the budget was assembled and kept
\* them all
C35_Witness ==
    /\ capPc = "done"
    /\ Len(HashtagNames(capRow)) > max_hashtags
    /\ SubSeq(HashtagNames(capOut), 1, Len(HashtagNames(capRow))) = HashtagNames(capRow)

\* C36: for a caption cell without a hashtag marker nothing is extracted and
\* the assembled caption is the cell text as it is, then the blank lines, the
\* boilerplate block, the blank lines and the mentions.
C36_NoMarkerTextUnchanged ==
    capPc = "done" /\ PyFind(capRow, "#") = -1 =>
        /\ ExtractedCaption(capRow) = <<>>
        /\ capOut = capRow \o <<"\n", "\n", "\n">> \o RawCaption
                        \o <<"\n", "\n", "\n">> \o Mentions

\* the step is a call of one of the three cell-writing methods
CellWrite ==
    /\ lastOp'.n = lastOp.n + 1
    /\ lastOp'.op \in {"update_image_data", "update_caption_data", "mark_content_as_posted"}

\* the records that hold an item get_all_content lists: the item parsed from
\* record p carries index p - 1
ListedRecords(sh) == {p \in 1..Len(sh.rows) : sh.rows[p].index # 0 /\ Parses(sh.rows[p])}

\* the records a step changed
ChangedRecords == {p \in 1..Len(sheet.rows) : sheet'.rows[p] # sheet.rows[p]}

\* C37: a call of update_image_data, update_caption_data or
\* mark_content_as_posted leaves the header row and the number of rows as they
\* were and changes only records that hold a listed item, one record at most
\* when the method takes one item.
C37_WritesStayInItemRow ==
    [][CellWrite =>
          /\ sheet'.header = sheet.header
          /\ Len(sheet'.rows) = Len(sheet.rows)
          /\ ChangedRecords \subseteq ListedRecords(sheet)
          /\ lastOp'.op # "mark_content_as_posted" => Cardinality(ChangedRecords) <= 1]_vars

\* C38: a run that reads the flag while it is set ends with that read and
\* leaves the flag file as it is; a run goes on to its flag write only when it
\* read a flag that is not set, and the flag is written only by a run at its
\* write of line 71 or in its finally clause.
C38_SkippingRunWritesNoFlag ==
    [][\A p \in RunIds :
          /\ (runs[p].pc \in {"idle", "returned"} /\ runs'[p] # runs[p] /\ lockFile = "yep") =>
                (runs'[p].pc = "returned" /\ lockFile' = lockFile)
          /\ (runs'[p].pc = "acquire" /\ runs[p].pc # "acquire") => lockFile # "yep"
          /\ (lockFile' # lockFile /\ runs'[p] # runs[p]) => runs[p].pc \in {"acquire", "release"}]_vars

\* a run read the flag while another run was inside, returned without
\* generating, and the other run still holds the flag
C38_Witness ==
    \E p \in RunIds, q \in RunIds :
        /\ p # q
        /\ runs[p].pc = "returned" /\ ~runs[p].generated
        /\ q \in runs[p].overlapped
        /\ Inside(q)
        /\ lockFile = "yep"

\* C39: while the cache is valid, the cached list is the list of items parsed
\* from the sheet as it is now.
C39_ValidCacheMatchesStore ==
    _is_cache_valid(_cache_timestamp) => _cache = get_all_content(sheet.rows, 1)

(***************************************************************************)
(* The generation workflow with its text client: every step of a run that  *)
(* asks for a text (the prompts of a batch, the caption) makes one         *)
(* generate_completion call and goes on with its answer.  No run is ended  *)
(* from outside; a step that is enabled is eventually taken, since the     *)
(* run is one coroutine that goes on whenever the call it awaits returns or *)
(* raises.                                                                 *)
(***************************************************************************)
\* the steps of a run that call generate_completion (content_service.py 151,
\* 167, 251)
TextCallSteps == {"posts_batch", "posts_caption", "stories_batch"}

\* the completion the step awaits has returned or raised
TextAnswered == client.pc = "idle" /\ client.raised # ""

\* the step has taken the answer: the adaptive delay and the number of
\* completions stay with the client
Taken(c) == [c EXCEPT !.attempt = 0, !.tried = 0, !.answer = "", !.slept = <<>>, !.raised = ""]

\* content_service.py 91-101: an exception of the completion leaves
\* generate_content_batch as a ContentGenerationError
BatchFailedOnText(r) == r.exc # "" /\ Len(r.msg) >= 3 /\ r.msg[3] = "[ContentGenerationError]"

\* a batch step that goes on with the answer of its completion
BatchWithText(type, pcBatch, pcImage, approved, step, most) ==
    /\ TextAnswered
    /\ CreateBatch(type, pcBatch, pcImage, approved, step, most)
    /\ client.raised # "ok" => BatchFailedOnText(run')
    /\ client' = Taken(client)

\* the caption step with the answer of its completion (content_service.py
\* 238-239: an exception of the completion is a failed caption)
CaptionWithText ==
    /\ TextAnswered
    /\ CaptionStep
    /\ client.raised # "ok" => (run'.cap = "failed" /\ sheet' = sheet)
    /\ client' = Taken(client)

\* a step awaits its completion: generate_completion is entered
TextCall ==
    /\ run.pc \in TextCallSteps
    /\ client.raised = ""
    /\ StartCompletion

\* one attempt of the awaited completion
TextAttempt == run.pc \in TextCallSteps /\ Attempt

\* the runs that are followed to their end
LiveRuns == 1

\* a run is started while the client can still serve its three completions
StartRun ==
    /\ run.n < LiveRuns
    /\ client.calls + Cardinality(TextCallSteps) <= MaxCompletions
    /\ CheckRunning

\* the steps of a started run
RunStep ==
    \/ SetRunning /\ UNCHANGED <<capVars, postLog, repoVars, aiVars, raceVars>>
    \/ NotifyStarted /\ UNCHANGED <<capVars, postLog, repoVars, aiVars, raceVars>>
    \/ Prepare /\ UNCHANGED <<capVars, postLog, repoVars, aiVars, raceVars>>
    \/ TextCall /\ UNCHANGED <<capVars, postVars, genVars, repoVars, raceVars>>
    \/ TextAttempt /\ UNCHANGED <<capVars, postVars, genVars, repoVars, raceVars>>
    \/ BatchWithText("posts", "posts_batch", "posts_image", approval_status("posts"),
                     "post_generation", MaxBatch)
          /\ UNCHANGED <<capVars, postLog, repoVars, raceVars>>
    \/ ImageItem("posts", "posts_image") /\ UNCHANGED <<capVars, postLog, repoVars, aiVars, raceVars>>
    \/ CaptionWithText /\ UNCHANGED <<capVars, postLog, repoVars, raceVars>>
    \/ BatchWithText("story", "stories_batch", "stories_image", approval_status("story"),
                     "story_generation", StoryPromptLimit)
          /\ UNCHANGED <<capVars, postLog, repoVars, raceVars>>
    \/ ImageItem("story", "stories_image") /\ UNCHANGED <<capVars, postLog, repoVars, aiVars, raceVars>>
    \/ NotifyCompleted /\ UNCHANGED <<capVars, postLog, repoVars, aiVars, raceVars>>
    \/ Release /\ UNCHANGED <<capVars, postLog, repoVars, aiVars, raceVars>>
    \/ Finish /\ UNCHANGED <<capVars, postLog, repoVars, aiVars, raceVars>>

LiveNext ==
    \/ StartRun /\ UNCHANGED <<capVars, postLog, repoVars, aiVars, raceVars>>
    \/ RunStep

SpecGenLive == Init /\ [][LiveNext]_vars /\ WF_vars(RunStep)

\* C40: every run that was started returns True or False, and no completion
\* is attempted more than max_retries times.
C40_EveryRunReturns ==
    /\ \A n \in 1..LiveRuns :
          (run.n = n) ~> (run.n = n /\ run.pc = "returned" /\ run.ret \in {"True", "False"})
    /\ [](client.tried <= max_retries)

\* a run whose prompt completion was rate limited in all its attempts (the
\* delay was backed off) has returned False
C40_Witness ==
    /\ run.pc = "returned"
    /\ run.ret = "False"
    /\ run.ai
    /\ client.calls > 0
    /\ client._rate_limit_delay > Second

=============
